---------------------------- MODULE Deployment_proofs ----------------------------
(***************************************************************************)
(* Proofs about Deployment, for any processes, any command lines and any   *)
(* number of attempts and mishaps: one server at a time (PortInv), a setup *)
(* that has gone through has made everything (DoneInv), and a refusal by a *)
(* validator has one of three explanations (RefusalInv).                   *)
(***************************************************************************)
EXTENDS Deployment, FiniteSetTheorems, SequenceTheorems, WellFoundedInduction, TLAPS

-------------------------------------------------------------------------------
(* One server *)

\* The processes, and who holds the port: whoever has got past setup_server, be it at work
\* or still about to start its consumers.
PortInv ==
    /\ stage \in [Process -> {"down", "config", "bind", "consume", "up"}]
    /\ \A p \in Process : stage[p] \in {"consume", "up"} <=> port = p

\* Everything is down at first.
LEMMA PortInit == Init => PortInv
  BY DeploymentAssumption DEF Init, PortInv

\* Only Bind takes the port, and only a free one; Stop gives it back.
LEMMA PortStep == PortInv /\ [Next]_vars => PortInv'
<1> SUFFICES ASSUME PortInv, [Next]_vars PROVE PortInv'
  OBVIOUS
<1>1. ASSUME UNCHANGED <<stage, port>>
      PROVE  PortInv'
  BY <1>1 DEF PortInv
<1>2. SetUp => UNCHANGED <<stage, port>>
  BY DEF SetUp, Validate, CreateQueue, SetAttributes, CreateBucket, FindTarget, CreateRole,
         CreatePolicy, Attach, PutRule, PutTargets, CreateSchedule, CreateTopic, Outcome, runVars
<1>3. ASSUME NEW p \in Process, Launch(p) \/ Configure(p) \/ Bind(p) \/ Consume(p) \/ Stop(p)
      PROVE  PortInv'
  BY <1>3, DeploymentAssumption DEF PortInv, Launch, Configure, Bind, Consume, Stop
<1>4. StartSetup \/ BreakOff \/ UNCHANGED vars => UNCHANGED <<stage, port>>
  BY DEF StartSetup, BreakOff, vars, runVars
<1>5. (\E t \in Workers : Fire(t) \/ \E p \in Process : Work(p, t)) => UNCHANGED <<stage, port>>
  BY DEF Fire, Work
<1> QED
  BY <1>1, <1>2, <1>3, <1>4, <1>5 DEF Next

\* However many processes are launched, stopped and started again on a host, two of them
\* never consume at the same time: the consumers start behind setup_server, which only the
\* holder of the port gets past.
THEOREM OnlyOneServes == Spec => []OneServer
<1>1. PortInv => OneServer
  <2> SUFFICES ASSUME PortInv, NEW p \in Process, NEW q \in Process,
                      stage[p] = "up", stage[q] = "up"
               PROVE  p = q
    BY DEF OneServer
  <2>1. port = p /\ port = q
    BY DEF PortInv
  <2> QED
    BY <2>1
<1> QED
  BY <1>1, PortInit, PortStep, PTL DEF Spec

-------------------------------------------------------------------------------
(* Induction, and what FlattenSeq flattens *)

\* The order of the numbers, as a relation.
Less == {p \in Nat \X Nat : p[1] < p[2]}

(* A set that holds 0 and with a number the next one holds all natural numbers. *)
LEMMA NatInduct ==
  ASSUME NEW S, 0 \in S, \A n \in Nat : n \in S => n + 1 \in S
  PROVE  Nat \subseteq S
<1> DEFINE T == Nat \ S
<1> SUFFICES ASSUME T # {} PROVE FALSE
  OBVIOUS
<1>1. IsWellFoundedOn(Less, Nat)
  <2>1. OpToRel(<, Nat) = Less
    BY DEF OpToRel, Less
  <2> QED
    BY <2>1, NatLessThanWellFounded
<1>2. \E n \in T : \A m \in T : ~(<<m, n>> \in Less)
  <2>1. T \subseteq Nat
    OBVIOUS
  <2> HIDE DEF T
  <2> QED
    BY <1>1, <2>1, WFMin
<1>3. PICK n \in T : \A m \in T : ~(<<m, n>> \in Less)
  BY <1>2
<1>4. n \in Nat /\ n # 0 /\ n \notin S
  OBVIOUS
<1>5. n - 1 \in Nat /\ <<n - 1, n>> \in Less
  BY <1>4 DEF Less
<1>6. n - 1 \in S
  BY <1>3, <1>5
<1> QED
  BY <1>4, <1>5, <1>6

(* A function on 1 .. n is a sequence. *)
LEMMA SeqMade ==
  ASSUME NEW A, NEW n \in Nat, NEW f \in [1 .. n -> A]
  PROVE  f \in Seq(A) /\ Len(f) = n
<1>1. f \in Seq(A)
  BY SeqDef
<1> QED
  BY <1>1, LenProperties

(* Two sequences, one after the other, lose no element. *)
LEMMA ConcatAll ==
  ASSUME NEW A, NEW s \in Seq(A), NEW t \in Seq(A)
  PROVE  s \o t \in Seq(A) /\ ToSet(s) \cup ToSet(t) \subseteq ToSet(s \o t)
<1>1. s \o t \in Seq(A) /\ Len(s \o t) = Len(s) + Len(t) /\ Len(s) \in Nat /\ Len(t) \in Nat
  BY ConcatProperties, LenProperties
<1>2. ASSUME NEW i \in 1 .. Len(s)
      PROVE  (s \o t)[i] = s[i] /\ i \in 1 .. Len(s \o t)
  BY <1>1, ConcatProperties
<1>3. ASSUME NEW i \in 1 .. Len(t)
      PROVE  (s \o t)[Len(s) + i] = t[i] /\ Len(s) + i \in 1 .. Len(s \o t)
  BY <1>1, ConcatProperties
<1>4. DOMAIN s = 1 .. Len(s) /\ DOMAIN t = 1 .. Len(t) /\ DOMAIN (s \o t) = 1 .. Len(s \o t)
  BY <1>1, LenProperties
<1>5. ToSet(s) \subseteq ToSet(s \o t)
  BY <1>2, <1>4, Zenon DEF ToSet
<1>6. ToSet(t) \subseteq ToSet(s \o t)
  BY <1>3, <1>4, Zenon DEF ToSet
<1> QED
  BY <1>1, <1>5, <1>6, Zenon

\* The equation that the function of FlattenSeq solves.
Adds(seqs, g, i) == IF i = 1 THEN seqs[i] ELSE g[i - 1] \o seqs[i]

Flattens(seqs) == CHOOSE g : g = [i \in 1 .. Len(seqs) |-> Adds(seqs, g, i)]

(* That equation, one by one. *)
LEMMA AddsNext ==
  ASSUME NEW seqs, NEW g, NEW m \in Nat
  PROVE  /\ m = 0 => Adds(seqs, g, m + 1) = seqs[m + 1]
         /\ m # 0 => Adds(seqs, g, m + 1) = g[m] \o seqs[m + 1]
<1>1. m + 1 - 1 = m /\ (m + 1 = 1 <=> m = 0)
  OBVIOUS
<1> DEFINE k == m + 1
<1>2. k - 1 = m /\ (k = 1 <=> m = 0)
  BY <1>1
<1> HIDE DEF k
<1>3. Adds(seqs, g, k) = IF k = 1 THEN seqs[k] ELSE g[k - 1] \o seqs[k]
  BY DEF Adds
<1>4. Adds(seqs, g, k) = IF m = 0 THEN seqs[k] ELSE g[m] \o seqs[k]
  BY <1>2, <1>3, Zenon
<1> QED
  BY <1>4 DEF k

(* FlattenSeq puts sequences one after the other and loses no element. *)
LEMMA FlattenedAll ==
  ASSUME NEW A, NEW n \in Nat \ {0}, NEW seqs \in [1 .. n -> Seq(A)]
  PROVE  /\ FlattenSeq(seqs) \in Seq(A)
         /\ \A i \in 1 .. n : ToSet(seqs[i]) \subseteq ToSet(FlattenSeq(seqs))
<1> DEFINE flatten == Flattens(seqs)
<1>1. Len(seqs) = n /\ n \in Nat /\ 1 \in 1 .. n
  BY SeqMade
<1>2. ASSUME NEW m \in Nat, m + 1 <= n
      PROVE  m <= n /\ m + 1 \in 1 .. n /\ (m # 0 => m \in 1 .. n)
  BY <1>1, <1>2
<1>3. ASSUME NEW m \in Nat, m + 1 <= n, NEW g, m # 0 => g[m] \in Seq(A)
      PROVE  Adds(seqs, g, m + 1) \in Seq(A)
  <2>1. seqs[m + 1] \in Seq(A)
    BY <1>2, <1>3, Zenon
  <2>2. m # 0 => g[m] \o seqs[m + 1] \in Seq(A)
    BY <1>3, <2>1, ConcatProperties
  <2> QED
    BY <2>1, <2>2, AddsNext, Zenon
<1> DEFINE P == {m \in Nat : m <= n => \E g \in [1 .. n -> Seq(A)] :
                                           \A i \in 1 .. m : g[i] = Adds(seqs, g, i)}
<1>4. 0 \in P
  BY <1>1
<1>5. ASSUME NEW m \in Nat, m \in P
      PROVE  m + 1 \in P
  <2> DEFINE Solved(k) == \E g \in [1 .. n -> Seq(A)] : \A i \in 1 .. k : g[i] = Adds(seqs, g, i)
  <2>1. ASSUME m + 1 <= n
        PROVE  Solved(m + 1)
    <3>1. PICK g \in [1 .. n -> Seq(A)] : \A i \in 1 .. m : g[i] = Adds(seqs, g, i)
      BY <1>2, <1>5, <2>1, Zenon
    <3> DEFINE h == [g EXCEPT ![m + 1] = Adds(seqs, g, m + 1)]
    <3>2. Adds(seqs, g, m + 1) \in Seq(A)
      BY <1>2, <1>3, <2>1, Zenon
    <3>3. h \in [1 .. n -> Seq(A)]
      BY <1>2, <2>1, <3>2
    <3>4. ASSUME NEW i \in 1 .. m + 1
          PROVE  h[i] = Adds(seqs, h, i)
      BY <1>2, <2>1, <3>1 DEF Adds
    <3> QED
      BY <3>3, <3>4
  <2>2. m + 1 \in Nat
    OBVIOUS
  <2> QED
    BY <2>1, <2>2, Zenon
<1>6. n \in P
  <2> HIDE DEF P
  <2> QED
    BY <1>1, <1>4, <1>5, NatInduct
<1>7. PICK g \in [1 .. n -> Seq(A)] : \A i \in 1 .. n : g[i] = Adds(seqs, g, i)
  <2>1. n <= n
    BY <1>1
  <2> QED
    BY <1>6, <2>1, Zenon
<1> HIDE DEF P
<1>8. flatten = [i \in 1 .. n |-> Adds(seqs, flatten, i)]
  <2>1. g = [i \in 1 .. n |-> Adds(seqs, g, i)]
    BY <1>7
  <2> QED
    BY <1>1, <2>1 DEF Flattens
<1>9. FlattenSeq(seqs) = flatten[n]
  BY <1>1 DEF FlattenSeq, Flattens, Adds
<1> HIDE DEF flatten
<1> DEFINE Good(m) == /\ flatten[m] \in Seq(A)
                      /\ \A i \in 1 .. m : ToSet(seqs[i]) \subseteq ToSet(flatten[m])
           Q == {m \in Nat : m + 1 <= n => Good(m + 1)}
<1>10. 0 \in Q
  <2>1. flatten[1] = Adds(seqs, flatten, 1)
    BY <1>1, <1>8, Zenon
  <2>2. flatten[1] = seqs[1]
    BY <2>1 DEF Adds
  <2>3. \A i \in 1 .. 1 : i = 1
    OBVIOUS
  <2>4. Good(1)
    BY <1>1, <2>2, <2>3
  <2> HIDE DEF Good
  <2> QED
    BY <2>4
<1>11. ASSUME NEW m \in Nat, m \in Q
       PROVE  m + 1 \in Q
  <2> SUFFICES ASSUME m + 1 + 1 <= n
               PROVE  Good(m + 1 + 1)
    OBVIOUS
  <2> DEFINE k == m + 1
  <2>1. k \in Nat /\ k # 0 /\ k <= n /\ k + 1 <= n
    BY <1>1
  <2>2. Good(k)
    BY <1>11, <2>1
  <2> HIDE DEF k
  <2>3. flatten[k + 1] = Adds(seqs, flatten, k + 1)
    BY <1>2, <1>8, <2>1, Zenon
  <2>4. flatten[k + 1] = flatten[k] \o seqs[k + 1]
    BY <2>1, <2>3, AddsNext, Zenon
  <2>5. seqs[k + 1] \in Seq(A)
    BY <1>2, <2>1, Zenon
  <2>6. /\ flatten[k + 1] \in Seq(A)
        /\ ToSet(flatten[k]) \cup ToSet(seqs[k + 1]) \subseteq ToSet(flatten[k + 1])
    BY <2>2, <2>4, <2>5, ConcatAll
  <2>7. \A i \in 1 .. k + 1 : i \in 1 .. k \/ i = k + 1
    BY <2>1
  <2>8. Good(k + 1)
    BY <2>2, <2>6, <2>7, Zenon
  <2> QED
    BY <2>8 DEF k
<1>12. n - 1 \in Q
  <2>1. n - 1 \in Nat
    BY <1>1
  <2> HIDE DEF Q
  <2>2. Nat \subseteq Q
    BY <1>10, <1>11, NatInduct
  <2> QED
    BY <2>1, <2>2
<1>13. Good(n)
  <2>1. n - 1 + 1 <= n /\ n - 1 + 1 = n
    BY <1>1
  <2> HIDE DEF Good
  <2> QED
    BY <1>12, <2>1
<1> QED
  BY <1>9, <1>13

-------------------------------------------------------------------------------
(* The calls of the setup *)

\* The sections that the setup validates.
Validated == {"aws", "sqs", "s3", "event_bridge", "sns"}

CallNames == {"validate", "create", "attributes", "bucket", "target", "role", "policy", "attach",
              "put_rule", "put_targets", "create_schedule", "topic"}

PlanStep ==
    {s \in [name : CallNames, arg : Queues \cup Workers \cup Validated \cup {""}] :
        s.name = "validate" => s.arg \in Validated}

\* The calls are calls.
LEMMA StepType ==
  ASSUME NEW n \in CallNames, NEW a \in Queues \cup Workers \cup Validated \cup {""},
         n = "validate" => a \in Validated
  PROVE  Step(n, a) \in PlanStep
  BY DEF Step, PlanStep

\* A row of one call, and one of two.
LEMMA RowType ==
  ASSUME NEW s \in PlanStep, NEW t \in PlanStep
  PROVE  /\ <<s>> \in Seq(PlanStep) /\ s \in ToSet(<<s>>)
         /\ <<s, t>> \in Seq(PlanStep) /\ s \in ToSet(<<s, t>>) /\ t \in ToSet(<<s, t>>)
<1>1. <<s>> \in Seq(PlanStep) /\ DOMAIN <<s>> = {1} /\ <<s>>[1] = s
  OBVIOUS
<1>2. <<s, t>> \in Seq(PlanStep) /\ DOMAIN <<s, t>> = {1, 2} /\ <<s, t>>[1] = s /\ <<s, t>>[2] = t
  OBVIOUS
<1> QED
  BY <1>1, <1>2 DEF ToSet

(* The calls for one queue and for one trigger. *)
LEMMA CallsFor ==
  ASSUME NEW x \in Queues \cup Workers
  PROVE  /\ QueueSteps(x) \in Seq(PlanStep)
         /\ Step("attributes", x) \in ToSet(QueueSteps(x))
         /\ RuleSteps(x) \in Seq(PlanStep)
         /\ Step("put_targets", x) \in ToSet(RuleSteps(x))
         /\ ScheduleSteps(x) \in Seq(PlanStep)
         /\ Step("create_schedule", x) \in ToSet(ScheduleSteps(x))
<1>1. \A n \in CallNames \ {"validate"} : Step(n, x) \in PlanStep
  BY StepType, Zenon
<1>2. {"create", "attributes", "put_rule", "put_targets", "create_schedule"}
          \subseteq CallNames \ {"validate"}
  BY DEF CallNames
<1>3. /\ Step("create", x) \in PlanStep /\ Step("attributes", x) \in PlanStep
      /\ Step("put_rule", x) \in PlanStep /\ Step("put_targets", x) \in PlanStep
      /\ Step("create_schedule", x) \in PlanStep
  BY <1>1, <1>2, Zenon
<1> QED
  BY <1>3, RowType, Zenon DEF QueueSteps, RuleSteps, ScheduleSteps

(* The queues and the triggers, by number. *)
LEMMA NamesAre ==
  /\ DOMAIN QueueNames = 1 .. 10 /\ \A i \in 1 .. 10 : QueueNames[i] \in Queues
  /\ DOMAIN WorkerTriggers = 1 .. 4 /\ \A i \in 1 .. 4 : WorkerTriggers[i] \in Workers
  /\ \A q \in Queues : \E i \in 1 .. 10 : q = QueueNames[i]
  /\ \A t \in Workers : \E i \in 1 .. 4 : t = WorkerTriggers[i]
  /\ Polled \subseteq Queues
<1>1. DOMAIN QueueNames = 1 .. 10
  BY DEF QueueNames
<1>2. DOMAIN WorkerTriggers = 1 .. 4
  BY DEF WorkerTriggers
<1>3. \A q : q \in Queues <=> \E i \in 1 .. 10 : q = QueueNames[i]
  BY <1>1 DEF Queues, ToSet
<1>4. \A i \in 1 .. 4 : WorkerTriggers[i] \in Workers
  BY DEF WorkerTriggers, Workers
<1>5. \A t \in Workers : \E i \in 1 .. 4 : t = WorkerTriggers[i]
  <2>1. /\ WorkerTriggers[1] = "Snos" /\ WorkerTriggers[2] = "Proving"
        /\ WorkerTriggers[3] = "DataSubmission" /\ WorkerTriggers[4] = "UpdateState"
    BY DEF WorkerTriggers
  <2> QED
    BY <2>1 DEF Workers
<1>6. Polled \subseteq Queues
  <2>1. /\ QueueNames[1] = "failure" /\ QueueNames[2] = "snos_process"
        /\ QueueNames[3] = "snos_verify" /\ QueueNames[4] = "proving_process"
        /\ QueueNames[5] = "proving_verify" /\ QueueNames[6] = "da_process"
        /\ QueueNames[7] = "da_verify" /\ QueueNames[8] = "update_process"
        /\ QueueNames[9] = "update_verify" /\ QueueNames[10] = "trigger"
    BY DEF QueueNames
  <2>2. \A q \in Polled : \E i \in 1 .. 10 : q = QueueNames[i]
    BY <2>1 DEF Polled
  <2> QED
    BY <1>3, <2>2
<1> QED
  BY <1>1, <1>2, <1>3, <1>4, <1>5, <1>6, Zenon

(* One call in the row for every queue, and one for every trigger. *)
LEMMA QueuePart ==
  /\ Flat(QueueNames, QueueSteps) \in Seq(PlanStep)
  /\ \A q \in Queues : Step("attributes", q) \in ToSet(Flat(QueueNames, QueueSteps))
<1>1. PICK seqs : seqs = [i \in DOMAIN QueueNames |-> QueueSteps(QueueNames[i])]
  OBVIOUS
<1>2. Flat(QueueNames, QueueSteps) = FlattenSeq(seqs)
  BY <1>1 DEF Flat
<1>3. \A i \in 1 .. 10 : QueueSteps(QueueNames[i]) \in Seq(PlanStep)
  BY NamesAre, CallsFor
<1>4. seqs \in [1 .. 10 -> Seq(PlanStep)]
  BY <1>1, <1>3, NamesAre
<1>5. 10 \in Nat \ {0}
  OBVIOUS
<1>6. /\ FlattenSeq(seqs) \in Seq(PlanStep)
      /\ \A i \in 1 .. 10 : ToSet(seqs[i]) \subseteq ToSet(FlattenSeq(seqs))
  BY <1>4, <1>5, FlattenedAll, Zenon
<1>7. \A i \in 1 .. 10 : Step("attributes", QueueNames[i]) \in ToSet(seqs[i])
  BY <1>1, NamesAre, CallsFor
<1> QED
  BY <1>2, <1>6, <1>7, NamesAre

\* With rules.
LEMMA RulePart ==
  /\ Flat(WorkerTriggers, RuleSteps) \in Seq(PlanStep)
  /\ \A t \in Workers : Step("put_targets", t) \in ToSet(Flat(WorkerTriggers, RuleSteps))
<1>1. PICK seqs : seqs = [i \in DOMAIN WorkerTriggers |-> RuleSteps(WorkerTriggers[i])]
  OBVIOUS
<1>2. Flat(WorkerTriggers, RuleSteps) = FlattenSeq(seqs)
  BY <1>1 DEF Flat
<1>3. \A i \in 1 .. 4 : RuleSteps(WorkerTriggers[i]) \in Seq(PlanStep)
  BY NamesAre, CallsFor
<1>4. seqs \in [1 .. 4 -> Seq(PlanStep)]
  BY <1>1, <1>3, NamesAre
<1>5. 4 \in Nat \ {0}
  OBVIOUS
<1>6. /\ FlattenSeq(seqs) \in Seq(PlanStep)
      /\ \A i \in 1 .. 4 : ToSet(seqs[i]) \subseteq ToSet(FlattenSeq(seqs))
  BY <1>4, <1>5, FlattenedAll, Zenon
<1>7. \A i \in 1 .. 4 : Step("put_targets", WorkerTriggers[i]) \in ToSet(seqs[i])
  BY <1>1, NamesAre, CallsFor
<1> QED
  BY <1>2, <1>6, <1>7, NamesAre

\* With schedules.
LEMMA SchedulePart ==
  /\ Flat(WorkerTriggers, ScheduleSteps) \in Seq(PlanStep)
  /\ \A t \in Workers : Step("create_schedule", t) \in ToSet(Flat(WorkerTriggers, ScheduleSteps))
<1>1. PICK seqs : seqs = [i \in DOMAIN WorkerTriggers |-> ScheduleSteps(WorkerTriggers[i])]
  OBVIOUS
<1>2. Flat(WorkerTriggers, ScheduleSteps) = FlattenSeq(seqs)
  BY <1>1 DEF Flat
<1>3. \A i \in 1 .. 4 : ScheduleSteps(WorkerTriggers[i]) \in Seq(PlanStep)
  BY NamesAre, CallsFor
<1>4. seqs \in [1 .. 4 -> Seq(PlanStep)]
  BY <1>1, <1>3, NamesAre
<1>5. 4 \in Nat \ {0}
  OBVIOUS
<1>6. /\ FlattenSeq(seqs) \in Seq(PlanStep)
      /\ \A i \in 1 .. 4 : ToSet(seqs[i]) \subseteq ToSet(FlattenSeq(seqs))
  BY <1>4, <1>5, FlattenedAll, Zenon
<1>7. \A i \in 1 .. 4 : Step("create_schedule", WorkerTriggers[i]) \in ToSet(seqs[i])
  BY <1>1, NamesAre, CallsFor
<1> QED
  BY <1>2, <1>6, <1>7, NamesAre

(* The plan, row by row. *)
FirstRow == <<Step("validate", "aws"), Step("validate", "sqs")>>

MiddleRow == <<Step("validate", "s3"), Step("bucket", ""), Step("validate", "event_bridge"),
            Step("target", ""), Step("role", ""), Step("policy", ""), Step("attach", "")>>

LastRow == <<Step("validate", "sns"), Step("topic", "")>>

Whole(triggerSteps) ==
    FirstRow \o Flat(QueueNames, QueueSteps) \o MiddleRow \o triggerSteps \o LastRow

\* The two plans are such rows.
LEMMA PlansAre ==
  /\ Plans["rule"] = Whole(Flat(WorkerTriggers, RuleSteps))
  /\ Plans["schedule"] = Whole(Flat(WorkerTriggers, ScheduleSteps))
<1> DEFINE rules == Flat(WorkerTriggers, RuleSteps)
           schedules == Flat(WorkerTriggers, ScheduleSteps)
<1>1. Plans = [rule |-> Whole(rules), schedule |-> Whole(schedules)]
  BY DEF Plans, Whole, FirstRow, MiddleRow, LastRow
<1> HIDE DEF rules, schedules
<1> QED
  BY <1>1 DEF rules, schedules

\* A row of seven calls.
LEMMA SevenRow ==
  ASSUME NEW a \in PlanStep, NEW b \in PlanStep, NEW c \in PlanStep, NEW d \in PlanStep,
         NEW e \in PlanStep, NEW f \in PlanStep, NEW g \in PlanStep
  PROVE  /\ <<a, b, c, d, e, f, g>> \in Seq(PlanStep)
         /\ b \in ToSet(<<a, b, c, d, e, f, g>>) /\ g \in ToSet(<<a, b, c, d, e, f, g>>)
<1>1. <<a, b, c, d, e, f, g>> \in Seq(PlanStep)
  OBVIOUS
<1>2. /\ DOMAIN <<a, b, c, d, e, f, g>> = 1 .. 7
      /\ <<a, b, c, d, e, f, g>>[2] = b /\ <<a, b, c, d, e, f, g>>[7] = g
  OBVIOUS
<1>3. 2 \in 1 .. 7 /\ 7 \in 1 .. 7
  OBVIOUS
<1> QED
  BY <1>1, <1>2, <1>3, Zenon DEF ToSet

\* What the fixed rows are made of.
LEMMA RowsAre ==
  /\ FirstRow \in Seq(PlanStep) /\ MiddleRow \in Seq(PlanStep) /\ LastRow \in Seq(PlanStep)
  /\ Step("bucket", "") \in ToSet(MiddleRow) /\ Step("attach", "") \in ToSet(MiddleRow)
  /\ Step("topic", "") \in ToSet(LastRow)
<1>1. \A x \in Validated : Step("validate", x) \in PlanStep
  <2>1. "validate" \in CallNames
    BY DEF CallNames
  <2> QED
    BY <2>1, StepType, Zenon
<1>2. \A n \in CallNames \ {"validate"} : Step(n, "") \in PlanStep
  BY StepType, Zenon
<1>3. {"bucket", "target", "role", "policy", "attach", "topic"} \subseteq CallNames \ {"validate"}
  BY DEF CallNames
<1>4. FirstRow \in Seq(PlanStep)
  BY <1>1, RowType, Zenon DEF FirstRow, Validated
<1>5. /\ Step("bucket", "") \in PlanStep /\ Step("target", "") \in PlanStep
      /\ Step("role", "") \in PlanStep /\ Step("policy", "") \in PlanStep
      /\ Step("attach", "") \in PlanStep /\ Step("topic", "") \in PlanStep
  BY <1>2, <1>3, Zenon
<1>6. /\ Step("validate", "s3") \in PlanStep /\ Step("validate", "event_bridge") \in PlanStep
      /\ Step("validate", "sns") \in PlanStep
  BY <1>1, Zenon DEF Validated
<1>7. MiddleRow \in Seq(PlanStep) /\ Step("bucket", "") \in ToSet(MiddleRow)
      /\ Step("attach", "") \in ToSet(MiddleRow)
  BY <1>5, <1>6, SevenRow, Zenon DEF MiddleRow
<1>8. LastRow \in Seq(PlanStep) /\ Step("topic", "") \in ToSet(LastRow)
  BY <1>5, <1>6, RowType, Zenon DEF LastRow
<1> QED
  BY <1>4, <1>7, <1>8, Zenon

\* What is in a row of the plan is in the plan.
LEMMA WholeHas ==
  ASSUME NEW rows \in Seq(PlanStep)
  PROVE  /\ Whole(rows) \in Seq(PlanStep)
         /\ \A q \in Queues : Step("attributes", q) \in ToSet(Whole(rows))
         /\ Step("bucket", "") \in ToSet(Whole(rows))
         /\ Step("attach", "") \in ToSet(Whole(rows))
         /\ Step("topic", "") \in ToSet(Whole(rows))
         /\ ToSet(rows) \subseteq ToSet(Whole(rows))
<1> DEFINE a == FirstRow \o Flat(QueueNames, QueueSteps)
           b == a \o MiddleRow
           c == b \o rows
<1>1. a \in Seq(PlanStep) /\ ToSet(Flat(QueueNames, QueueSteps)) \subseteq ToSet(a)
  BY RowsAre, QueuePart, ConcatAll
<1> HIDE DEF a
<1>2. b \in Seq(PlanStep) /\ ToSet(a) \cup ToSet(MiddleRow) \subseteq ToSet(b)
  BY <1>1, RowsAre, ConcatAll
<1> HIDE DEF b
<1>3. c \in Seq(PlanStep) /\ ToSet(b) \cup ToSet(rows) \subseteq ToSet(c)
  BY <1>2, ConcatAll
<1> HIDE DEF c
<1>4. c \o LastRow \in Seq(PlanStep) /\ ToSet(c) \cup ToSet(LastRow) \subseteq ToSet(c \o LastRow)
  BY <1>3, RowsAre, ConcatAll
<1>5. Whole(rows) = c \o LastRow
  BY DEF Whole, a, b, c
<1> QED
  BY <1>1, <1>2, <1>3, <1>4, <1>5, RowsAre, QueuePart

(* All the calls that the setup needs are in the plan. *)
LEMMA PlanHas ==
  ASSUME deployment.cron \in {"rule", "schedule"}
  PROVE  /\ Plan \in Seq(PlanStep)
         /\ \A q \in Queues : Step("attributes", q) \in ToSet(Plan)
         /\ Step("bucket", "") \in ToSet(Plan) /\ Step("attach", "") \in ToSet(Plan)
         /\ Step("topic", "") \in ToSet(Plan)
         /\ \A t \in Workers : \/ Step("put_targets", t) \in ToSet(Plan)
                               \/ Step("create_schedule", t) \in ToSet(Plan)
<1>1. CASE deployment.cron = "rule"
  BY <1>1, PlansAre, RulePart, WholeHas, Zenon DEF Plan
<1>2. CASE deployment.cron = "schedule"
  BY <1>2, PlansAre, SchedulePart, WholeHas, Zenon DEF Plan
<1> QED
  BY <1>1, <1>2

-------------------------------------------------------------------------------
(* What a call has left behind, for good *)

\* The cloud, with a queue in one of three states.
CloudType ==
    cloud \in [queues : [Queues -> {"none", "bare", "set"}], bucket : BOOLEAN, roles : Nat,
               policies : Nat, attached : Nat, targets : [Workers -> Nat],
               schedules : [Workers -> Nat], topic : BOOLEAN]

\* What there is after a call, if it is one that Wired asks for.
Effect(step) ==
    /\ step.name = "attributes" /\ step.arg \in Queues => cloud.queues[step.arg] = "set"
    /\ step.name = "bucket" => cloud.bucket
    /\ step.name = "attach" => cloud.attached > 0
    /\ step.name = "put_targets" /\ step.arg \in Workers => cloud.targets[step.arg] > 0
    /\ step.name = "create_schedule" /\ step.arg \in Workers => cloud.schedules[step.arg] > 0
    /\ step.name = "topic" => cloud.topic

\* The calls that the running setup has made, or all of them once it has gone through,
\* have their effect.
DoneInv ==
    /\ deployment \in Deployments
    /\ CloudType
    /\ at \in 0 .. Len(Plan)
    /\ finished \in BOOLEAN /\ (finished => at = 0)
    /\ \A k \in 1 .. Len(Plan) : k < at \/ finished => Effect(Plan[k])

\* Nothing is taken away from the cloud.
Grows ==
    /\ \A q \in Queues : cloud.queues[q] = "set" => cloud'.queues[q] = "set"
    /\ cloud.bucket => cloud'.bucket
    /\ cloud.topic => cloud'.topic
    /\ cloud.attached > 0 => cloud'.attached > 0
    /\ \A t \in Workers : /\ cloud.targets[t] > 0 => cloud'.targets[t] > 0
                          /\ cloud.schedules[t] > 0 => cloud'.schedules[t] > 0

\* No call has been made at first.
LEMMA DoneStart == Init => DoneInv
<1> SUFFICES ASSUME Init PROVE DoneInv
  OBVIOUS
<1>1. CloudType
  BY DEF Init, CloudType, EmptyCloud
<1>2. Len(Plan) \in Nat
  <2>1. deployment.cron \in {"rule", "schedule"}
    BY DeploymentAssumption DEF Init
  <2> QED
    BY <2>1, PlanHas, LenProperties
<1>3. deployment \in Deployments /\ at = 0 /\ finished = FALSE
  BY DEF Init
<1>4. 0 \in 0 .. Len(Plan) /\ \A k \in 1 .. Len(Plan) : ~(k < 0)
  BY <1>2
<1> QED
  BY <1>1, <1>3, <1>4, Zenon DEF DoneInv

\* One call: if it goes through, its effect is there, and no earlier one is lost.
LEMMA OneCall ==
  ASSUME DoneInv, NEW name, NEW after, NEW ok, NEW step, step = Now,
         Calls(name), Outcome(ok, after), ok => CloudType' /\ Grows /\ Effect(step)'
  PROVE  DoneInv'
<1>1. deployment' = deployment /\ Plan' = Plan
  BY DEF Outcome, Plan
<1>2. at # 0 /\ at \in 0 .. Len(Plan) /\ ~finished
  BY DEF Calls, DoneInv
<1>3. deployment.cron \in {"rule", "schedule"}
  BY DeploymentAssumption DEF DoneInv
<1>4. Plan \in Seq(PlanStep) /\ Len(Plan) \in Nat
  BY <1>3, PlanHas, LenProperties
<1>5. ASSUME ~ok
      PROVE  cloud' = cloud /\ at' = 0 /\ ~finished' /\ finished' \in BOOLEAN
  BY <1>5, Zenon DEF Outcome
<1>6. ASSUME ok
      PROVE  /\ at' = (IF at < Len(Plan) THEN at + 1 ELSE 0)
             /\ finished' \in BOOLEAN /\ (finished' <=> at = Len(Plan))
  BY <1>6, Zenon DEF Outcome
<1>7. CloudType'
  BY <1>5, Zenon DEF DoneInv, CloudType
<1>8. at' \in 0 .. Len(Plan) /\ finished' \in BOOLEAN /\ (finished' => at' = 0)
  <2>1. CASE ok
    BY <1>2, <1>4, <1>6, <2>1
  <2>2. CASE ~ok
    BY <1>4, <1>5, <2>2
  <2> QED
    BY <2>1, <2>2
<1>9. ASSUME ok, NEW k \in 1 .. Len(Plan), k <= at, NEW call, call = Plan[k]
      PROVE  Effect(call)'
  <2>1. ASSUME k = at
        PROVE  Effect(call)'
    <3>1. call = step
      BY <1>9, <2>1 DEF Now
    <3> QED
      BY <1>9, <3>1
  <2>2. ASSUME k < at
        PROVE  Effect(call)'
    <3>1. Effect(call)
      BY <2>2, <1>9 DEF DoneInv
    <3> QED
      BY <3>1, <1>9 DEF Effect, Grows
  <2> QED
    BY <1>2, <1>4, <1>9, <2>1, <2>2
<1>10. ASSUME NEW k \in 1 .. Len(Plan), k < at' \/ finished'
       PROVE  Effect(Plan[k])'
  <2>1. ok
    BY <1>4, <1>5, <1>10
  <2>2. k <= at
    BY <1>2, <1>4, <1>6, <1>10, <2>1
  <2>3. PICK call : call = Plan[k]
    OBVIOUS
  <2>4. Effect(call)'
    BY <1>9, <1>10, <2>1, <2>2, <2>3
  <2> QED
    BY <1>1, <2>3, <2>4 DEF Effect
<1> QED
  BY <1>1, <1>7, <1>8, <1>10, Zenon DEF DoneInv

(* Each of the calls. *)
LEMMA CallKeeps == DoneInv /\ SetUp => DoneInv'
<1> SUFFICES ASSUME DoneInv, SetUp PROVE DoneInv'
  OBVIOUS
<1>1. PICK step : step = Now
  OBVIOUS
<1>2. CloudType
  BY DEF DoneInv
<1>3. ASSUME Validate
      PROVE  DoneInv'
  <2>1. Calls("validate") /\ step.name = "validate"
    BY <1>1, <1>3, Zenon DEF Validate, Calls
  <2> DEFINE ok == Validates(deployment.setup, step.arg)
           after == cloud
  <2>2. Outcome(ok, after)
    BY <1>1, <1>3, Zenon DEF Validate
  <2> HIDE DEF ok
  <2>3. ok => cloud' = after
    BY <2>2, Zenon DEF Outcome
  <2>4. ok => CloudType' /\ Grows /\ Effect(step)'
    BY <1>2, <2>1, <2>3 DEF CloudType, Grows, Effect
  <2> HIDE DEF after
  <2> QED
    BY <1>1, <2>1, <2>2, <2>4, OneCall, Zenon
<1>4. ASSUME CreateQueue
      PROVE  DoneInv'
  <2>1. Calls("create") /\ step.name = "create"
    BY <1>1, <1>4, Zenon DEF CreateQueue, Calls
  <2> DEFINE ok == TRUE
           after == (IF cloud.queues[step.arg] = "none"
                     THEN [cloud EXCEPT !.queues[step.arg] = "bare"] ELSE cloud)
  <2>2. Outcome(ok, after)
    BY <1>1, <1>4, Zenon DEF CreateQueue
  <2> HIDE DEF ok
  <2>3. ok => cloud' = after
    BY <2>2, Zenon DEF Outcome
  <2>4. ok => CloudType' /\ Grows /\ Effect(step)'
    BY <1>2, <2>1, <2>3 DEF CloudType, Grows, Effect
  <2> HIDE DEF after
  <2> QED
    BY <1>1, <2>1, <2>2, <2>4, OneCall, Zenon
<1>5. ASSUME SetAttributes
      PROVE  DoneInv'
  <2>1. Calls("attributes") /\ step.name = "attributes"
    BY <1>1, <1>5, Zenon DEF SetAttributes, Calls
  <2> DEFINE ok == (DeadLetters(step.arg) => cloud.queues["failure"] # "none")
           after == [cloud EXCEPT !.queues[step.arg] = "set"]
  <2>2. Outcome(ok, after)
    BY <1>1, <1>5, Zenon DEF SetAttributes
  <2> HIDE DEF ok
  <2>3. ok => cloud' = after
    BY <2>2, Zenon DEF Outcome
  <2>4. ok => CloudType' /\ Grows /\ Effect(step)'
    BY <1>2, <2>1, <2>3 DEF CloudType, Grows, Effect
  <2> HIDE DEF after
  <2> QED
    BY <1>1, <2>1, <2>2, <2>4, OneCall, Zenon
<1>6. ASSUME CreateBucket
      PROVE  DoneInv'
  <2>1. Calls("bucket") /\ step.name = "bucket"
    BY <1>1, <1>6, Zenon DEF CreateBucket, Calls
  <2> DEFINE ok == (cloud.bucket => deployment.region = "us-east-1")
           after == [cloud EXCEPT !.bucket = TRUE]
  <2>2. Outcome(ok, after)
    BY <1>1, <1>6, Zenon DEF CreateBucket
  <2> HIDE DEF ok
  <2>3. ok => cloud' = after
    BY <2>2, Zenon DEF Outcome
  <2>4. ok => CloudType' /\ Grows /\ Effect(step)'
    BY <1>2, <2>1, <2>3 DEF CloudType, Grows, Effect
  <2> HIDE DEF after
  <2> QED
    BY <1>1, <2>1, <2>2, <2>4, OneCall, Zenon
<1>7. ASSUME FindTarget
      PROVE  DoneInv'
  <2>1. Calls("target") /\ step.name = "target"
    BY <1>1, <1>7, Zenon DEF FindTarget, Calls
  <2> DEFINE ok == (deployment.target \in Queues /\ cloud.queues[deployment.target] # "none")
           after == cloud
  <2>2. Outcome(ok, after)
    BY <1>1, <1>7, Zenon DEF FindTarget
  <2> HIDE DEF ok
  <2>3. ok => cloud' = after
    BY <2>2, Zenon DEF Outcome
  <2>4. ok => CloudType' /\ Grows /\ Effect(step)'
    BY <1>2, <2>1, <2>3 DEF CloudType, Grows, Effect
  <2> HIDE DEF after
  <2> QED
    BY <1>1, <2>1, <2>2, <2>4, OneCall, Zenon
<1>8. ASSUME CreateRole
      PROVE  DoneInv'
  <2>1. Calls("role") /\ step.name = "role"
    BY <1>1, <1>8, Zenon DEF CreateRole, Calls
  <2> DEFINE ok == TRUE
           after == [cloud EXCEPT !.roles = @ + 1]
  <2>2. Outcome(ok, after)
    BY <1>1, <1>8, Zenon DEF CreateRole
  <2> HIDE DEF ok
  <2>3. ok => cloud' = after
    BY <2>2, Zenon DEF Outcome
  <2>4. ok => CloudType' /\ Grows /\ Effect(step)'
    BY <1>2, <2>1, <2>3 DEF CloudType, Grows, Effect
  <2> HIDE DEF after
  <2> QED
    BY <1>1, <2>1, <2>2, <2>4, OneCall, Zenon
<1>9. ASSUME CreatePolicy
      PROVE  DoneInv'
  <2>1. Calls("policy") /\ step.name = "policy"
    BY <1>1, <1>9, Zenon DEF CreatePolicy, Calls
  <2> DEFINE ok == TRUE
           after == [cloud EXCEPT !.policies = @ + 1]
  <2>2. Outcome(ok, after)
    BY <1>1, <1>9, Zenon DEF CreatePolicy
  <2> HIDE DEF ok
  <2>3. ok => cloud' = after
    BY <2>2, Zenon DEF Outcome
  <2>4. ok => CloudType' /\ Grows /\ Effect(step)'
    BY <1>2, <2>1, <2>3 DEF CloudType, Grows, Effect
  <2> HIDE DEF after
  <2> QED
    BY <1>1, <2>1, <2>2, <2>4, OneCall, Zenon
<1>10. ASSUME Attach
      PROVE  DoneInv'
  <2>1. Calls("attach") /\ step.name = "attach"
    BY <1>1, <1>10, Zenon DEF Attach, Calls
  <2> DEFINE ok == TRUE
           after == [cloud EXCEPT !.attached = @ + 1]
  <2>2. Outcome(ok, after)
    BY <1>1, <1>10, Zenon DEF Attach
  <2> HIDE DEF ok
  <2>3. ok => cloud' = after
    BY <2>2, Zenon DEF Outcome
  <2>4. ok => CloudType' /\ Grows /\ Effect(step)'
    BY <1>2, <2>1, <2>3 DEF CloudType, Grows, Effect
  <2> HIDE DEF after
  <2> QED
    BY <1>1, <2>1, <2>2, <2>4, OneCall, Zenon
<1>11. ASSUME PutRule
      PROVE  DoneInv'
  <2>1. Calls("put_rule") /\ step.name = "put_rule"
    BY <1>1, <1>11, Zenon DEF PutRule, Calls
  <2> DEFINE ok == TRUE
           after == cloud
  <2>2. Outcome(ok, after)
    BY <1>1, <1>11, Zenon DEF PutRule
  <2> HIDE DEF ok
  <2>3. ok => cloud' = after
    BY <2>2, Zenon DEF Outcome
  <2>4. ok => CloudType' /\ Grows /\ Effect(step)'
    BY <1>2, <2>1, <2>3 DEF CloudType, Grows, Effect
  <2> HIDE DEF after
  <2> QED
    BY <1>1, <2>1, <2>2, <2>4, OneCall, Zenon
<1>12. ASSUME PutTargets
      PROVE  DoneInv'
  <2>1. Calls("put_targets") /\ step.name = "put_targets"
    BY <1>1, <1>12, Zenon DEF PutTargets, Calls
  <2> DEFINE ok == TRUE
           after == [cloud EXCEPT !.targets[step.arg] = @ + 1]
  <2>2. Outcome(ok, after)
    BY <1>1, <1>12, Zenon DEF PutTargets
  <2> HIDE DEF ok
  <2>3. ok => cloud' = after
    BY <2>2, Zenon DEF Outcome
  <2>4. ok => CloudType' /\ Grows /\ Effect(step)'
    BY <1>2, <2>1, <2>3 DEF CloudType, Grows, Effect
  <2> HIDE DEF after
  <2> QED
    BY <1>1, <2>1, <2>2, <2>4, OneCall, Zenon
<1>13. ASSUME CreateSchedule
      PROVE  DoneInv'
  <2>1. Calls("create_schedule") /\ step.name = "create_schedule"
    BY <1>1, <1>13, Zenon DEF CreateSchedule, Calls
  <2> DEFINE ok == (cloud.schedules[step.arg] = 0)
           after == [cloud EXCEPT !.schedules[step.arg] = @ + 1]
  <2>2. Outcome(ok, after)
    BY <1>1, <1>13, Zenon DEF CreateSchedule
  <2> HIDE DEF ok
  <2>3. ok => cloud' = after
    BY <2>2, Zenon DEF Outcome
  <2>4. ok => CloudType' /\ Grows /\ Effect(step)'
    BY <1>2, <2>1, <2>3 DEF CloudType, Grows, Effect
  <2> HIDE DEF after
  <2> QED
    BY <1>1, <2>1, <2>2, <2>4, OneCall, Zenon
<1>14. ASSUME CreateTopic
      PROVE  DoneInv'
  <2>1. Calls("topic") /\ step.name = "topic"
    BY <1>1, <1>14, Zenon DEF CreateTopic, Calls
  <2> DEFINE ok == TRUE
           after == [cloud EXCEPT !.topic = TRUE]
  <2>2. Outcome(ok, after)
    BY <1>1, <1>14, Zenon DEF CreateTopic
  <2> HIDE DEF ok
  <2>3. ok => cloud' = after
    BY <2>2, Zenon DEF Outcome
  <2>4. ASSUME ok PROVE CloudType'
    BY <1>2, <2>3, <2>4, Zenon DEF CloudType
  <2>6. ok => Grows
    BY <1>2, <2>3 DEF CloudType, Grows
  <2>5. ok => Effect(step)'
    BY <1>2, <2>1, <2>3 DEF CloudType, Effect
  <2> HIDE DEF after
  <2> QED
    BY <1>1, <2>1, <2>2, <2>4, <2>5, <2>6, OneCall, Zenon
<1> QED
  BY <1>3, <1>4, <1>5, <1>6, <1>7, <1>8, <1>9, <1>10, <1>11, <1>12, <1>13, <1>14 DEF SetUp

\* Starting again begins before the first call, breaking off ends what was being done.
LEMMA DoneStep == DoneInv /\ [Next]_vars => DoneInv'
<1> SUFFICES ASSUME DoneInv, [Next]_vars PROVE DoneInv'
  OBVIOUS
<1>1. ASSUME UNCHANGED <<deployment, cloud, at, finished>>
      PROVE  DoneInv'
  BY <1>1, Zenon DEF DoneInv, CloudType, Effect, Plan
<1>2. ASSUME StartSetup
      PROVE  DoneInv'
  <2>1. deployment.cron \in {"rule", "schedule"}
    BY DeploymentAssumption DEF DoneInv
  <2>2. Len(Plan) \in Nat /\ 1 \in 0 .. Len(Plan)
    <3>1. Plan \in Seq(PlanStep) /\ Step("bucket", "") \in ToSet(Plan)
      BY <2>1, PlanHas
    <3>2. DOMAIN Plan = 1 .. Len(Plan) /\ Len(Plan) \in Nat
      BY <3>1, LenProperties
    <3>3. \E k \in 1 .. Len(Plan) : TRUE
      BY <3>1, <3>2 DEF ToSet
    <3> QED
      BY <3>2, <3>3
  <2>3. \A k \in 1 .. Len(Plan) : ~(k < 1)
    BY <2>2
  <2>4. /\ at' = 1 /\ deployment' = deployment /\ Plan' = Plan /\ cloud' = cloud
        /\ ~finished /\ finished' = finished
    BY <1>2 DEF StartSetup, Plan, DoneInv
  <2>5. CloudType'
    BY <2>4, Zenon DEF DoneInv, CloudType
  <2> QED
    BY <2>2, <2>3, <2>4, <2>5, Zenon DEF DoneInv
<1>3. ASSUME BreakOff
      PROVE  DoneInv'
  <2>1. /\ at' = 0 /\ deployment' = deployment /\ Plan' = Plan /\ cloud' = cloud
        /\ ~finished /\ finished' = finished
    BY <1>3 DEF BreakOff, Plan, DoneInv
  <2>2. CloudType'
    BY <2>1, Zenon DEF DoneInv, CloudType
  <2>3. 0 \in 0 .. Len(Plan) /\ \A k \in 1 .. Len(Plan) : ~(k < 0)
    <3>1. deployment.cron \in {"rule", "schedule"}
      BY DeploymentAssumption DEF DoneInv
    <3>2. Len(Plan) \in Nat
      BY <3>1, PlanHas, LenProperties
    <3> QED
      BY <3>2
  <2> QED
    BY <2>1, <2>2, <2>3, Zenon DEF DoneInv
<1>4. ASSUME NEW p \in Process, Launch(p) \/ Configure(p) \/ Bind(p) \/ Consume(p) \/ Stop(p)
      PROVE  UNCHANGED <<deployment, cloud, at, finished>>
  BY <1>4 DEF Launch, Configure, Bind, Consume, Stop, setupVars
<1>5. (\E t \in Workers : Fire(t) \/ \E p \in Process : Work(p, t))
          => UNCHANGED <<deployment, cloud, at, finished>>
  BY DEF Fire, Work, setupVars
<1>6. UNCHANGED vars => UNCHANGED <<deployment, cloud, at, finished>>
  BY DEF vars, setupVars
<1> QED
  BY <1>1, <1>2, <1>3, <1>4, <1>5, <1>6, CallKeeps DEF Next

\* However often the setup breaks off and is started again: when it has gone through, every
\* queue that is polled has its timeout and its dead letter queue, the bucket, the role and
\* the alert topic are there, and every worker has a trigger.
THEOREM FinishedIsWired == Spec => []Wired
<1>1. DoneInv => Wired
  <2> SUFFICES ASSUME DoneInv, finished PROVE Wired
    BY DEF Wired
  <2>1. deployment.cron \in {"rule", "schedule"}
    BY DeploymentAssumption DEF DoneInv
  <2>2. ASSUME NEW step \in ToSet(Plan)
        PROVE  Effect(step)
    <3>1. DOMAIN Plan = 1 .. Len(Plan)
      BY <2>1, PlanHas, LenProperties
    <3> QED
      BY <3>1 DEF DoneInv, ToSet
  <2>3. \A q \in Polled : cloud.queues[q] = "set"
    <3>1. \A q \in Queues : Effect(Step("attributes", q))
      BY <2>1, <2>2, PlanHas
    <3> QED
      BY <3>1, NamesAre DEF Effect, Step
  <2>4. cloud.bucket /\ cloud.topic /\ cloud.attached > 0
    <3>1. Effect(Step("bucket", "")) /\ Effect(Step("topic", "")) /\ Effect(Step("attach", ""))
      BY <2>1, <2>2, PlanHas
    <3> QED
      BY <3>1 DEF Effect, Step
  <2>5. ASSUME NEW t \in Workers
        PROVE  cloud.targets[t] + cloud.schedules[t] > 0
    <3>1. Effect(Step("put_targets", t)) \/ Effect(Step("create_schedule", t))
      BY <2>1, <2>2, PlanHas
    <3>2. cloud.targets[t] > 0 \/ cloud.schedules[t] > 0
      BY <3>1 DEF Effect, Step
    <3>3. cloud.targets[t] \in Nat /\ cloud.schedules[t] \in Nat
      BY DEF DoneInv, CloudType
    <3> QED
      BY <3>2, <3>3
  <2> QED
    BY <2>3, <2>4, <2>5 DEF Wired
<1> QED
  BY <1>1, DoneStart, DoneStep, PTL DEF Spec

-------------------------------------------------------------------------------
(* What a validator refuses *)

(* What the validators need is demanded by requires_all, is never optional, or is named in *)
(* Unguarded.                                                                              *)
Guarded(command, section) ==
    LET struct == Structs(command)[section] IN
    /\ Needed(command, section) \ Unguarded \subseteq struct.requires \cup Mandatory(command)
    /\ struct.flag = "none" => Needed(command, section) = {}

\* The sections with a validator.
LEMMA SetupSections ==
  /\ Sections("setup") = {"aws", "s3", "sqs", "sns", "event_bridge"}
  /\ Structs("setup") = SetupCmd
  BY DEF Sections, Structs, SetupCmd, Validators

\* Those of the other command.
LEMMA RunSections ==
  /\ Sections("run") = {"aws", "ethereum", "starknet", "s3", "sqs", "sns", "mongodb", "da",
                        "sharp", "atlantic", "layout"}
  /\ Structs("run") = RunCmd
  BY DEF Sections, Structs, RunCmd, Validators

\* Section by section.
LEMMA SetupGuarded == \A section \in Sections("setup") : Guarded("setup", section)
<1>1. Guarded("setup", "aws")
  <2>1. /\ Structs("setup")["aws"] = AWSConfigCliArgs
        /\ Validators["aws"] = validate_provider_params
    BY SetupSections DEF SetupCmd, Validators
  <2> QED
    BY <2>1 DEF Guarded, Needed, Mandatory, Unguarded, AWSConfigCliArgs,
                validate_provider_params
<1>2. Guarded("setup", "s3")
  <2>1. /\ Structs("setup")["s3"] = AWSS3CliArgs
        /\ Validators["s3"] = validate_storage_params
    BY SetupSections DEF SetupCmd, Validators
  <2> QED
    BY <2>1 DEF Guarded, Needed, Mandatory, Unguarded, AWSConfigCliArgs, AWSS3CliArgs,
                validate_storage_params
<1>3. Guarded("setup", "sqs")
  <2>1. /\ Structs("setup")["sqs"] = AWSSQSCliArgs
        /\ Validators["sqs"] = validate_queue_params
    BY SetupSections DEF SetupCmd, Validators
  <2> QED
    BY <2>1 DEF Guarded, Needed, Mandatory, Unguarded, AWSConfigCliArgs, AWSSQSCliArgs,
                validate_queue_params
<1>4. Guarded("setup", "sns")
  <2>1. /\ Structs("setup")["sns"] = AWSSNSCliArgs
        /\ Validators["sns"] = validate_alert_params
    BY SetupSections DEF SetupCmd, Validators
  <2> QED
    BY <2>1 DEF Guarded, Needed, Mandatory, Unguarded, AWSConfigCliArgs, AWSSNSCliArgs,
                validate_alert_params
<1>5. Guarded("setup", "event_bridge")
  <2>1. /\ Structs("setup")["event_bridge"] = AWSEventBridgeCliArgs
        /\ Validators["event_bridge"] = validate_cron_params
    BY SetupSections DEF SetupCmd, Validators
  <2> QED
    BY <2>1 DEF Guarded, Needed, Mandatory, Unguarded, AWSConfigCliArgs, AWSEventBridgeCliArgs,
                validate_cron_params
<1> QED
  BY <1>1, <1>2, <1>3, <1>4, <1>5, SetupSections

\* Section by section.
LEMMA RunGuarded == \A section \in Sections("run") : Guarded("run", section)
<1>1. Guarded("run", "aws")
  <2>1. /\ Structs("run")["aws"] = AWSConfigCliArgs
        /\ Validators["aws"] = validate_provider_params
    BY RunSections DEF RunCmd, Validators
  <2> QED
    BY <2>1 DEF Guarded, Needed, Mandatory, Unguarded, AWSConfigCliArgs,
                validate_provider_params
<1>2. Guarded("run", "ethereum")
  <2>1. /\ Structs("run")["ethereum"] = EthereumSettlementCliArgs
        /\ Validators["ethereum"] = validate_settlement_params.ethereum
    BY RunSections DEF RunCmd, Validators
  <2> QED
    BY <2>1 DEF Guarded, Needed, Mandatory, Unguarded, AWSConfigCliArgs, EthereumSettlementCliArgs,
                validate_settlement_params
<1>3. Guarded("run", "starknet")
  <2>1. /\ Structs("run")["starknet"] = StarknetSettlementCliArgs
        /\ Validators["starknet"] = validate_settlement_params.starknet
    BY RunSections DEF RunCmd, Validators
  <2> QED
    BY <2>1 DEF Guarded, Needed, Mandatory, Unguarded, AWSConfigCliArgs, StarknetSettlementCliArgs,
                validate_settlement_params
<1>4. Guarded("run", "s3")
  <2>1. /\ Structs("run")["s3"] = AWSS3CliArgs
        /\ Validators["s3"] = validate_storage_params
    BY RunSections DEF RunCmd, Validators
  <2> QED
    BY <2>1 DEF Guarded, Needed, Mandatory, Unguarded, AWSConfigCliArgs, AWSS3CliArgs,
                validate_storage_params
<1>5. Guarded("run", "sqs")
  <2>1. /\ Structs("run")["sqs"] = AWSSQSCliArgs
        /\ Validators["sqs"] = validate_queue_params
    BY RunSections DEF RunCmd, Validators
  <2> QED
    BY <2>1 DEF Guarded, Needed, Mandatory, Unguarded, AWSConfigCliArgs, AWSSQSCliArgs,
                validate_queue_params
<1>6. Guarded("run", "sns")
  <2>1. /\ Structs("run")["sns"] = AWSSNSCliArgs
        /\ Validators["sns"] = validate_alert_params
    BY RunSections DEF RunCmd, Validators
  <2> QED
    BY <2>1 DEF Guarded, Needed, Mandatory, Unguarded, AWSConfigCliArgs, AWSSNSCliArgs,
                validate_alert_params
<1>7. Guarded("run", "mongodb")
  <2>1. /\ Structs("run")["mongodb"] = MongoDBCliArgs
        /\ Validators["mongodb"] = validate_database_params
    BY RunSections DEF RunCmd, Validators
  <2> QED
    BY <2>1 DEF Guarded, Needed, Mandatory, Unguarded, AWSConfigCliArgs, MongoDBCliArgs,
                validate_database_params
<1>8. Guarded("run", "da")
  <2>1. /\ Structs("run")["da"] = EthereumDaCliArgs
        /\ Validators["da"] = validate_da_params
    BY RunSections DEF RunCmd, Validators
  <2> QED
    BY <2>1 DEF Guarded, Needed, Mandatory, Unguarded, AWSConfigCliArgs, EthereumDaCliArgs,
                validate_da_params
<1>9. Guarded("run", "sharp")
  <2>1. /\ Structs("run")["sharp"] = SharpCliArgs
        /\ Validators["sharp"] = validate_prover_params.sharp
    BY RunSections DEF RunCmd, Validators
  <2> QED
    BY <2>1 DEF Guarded, Needed, Mandatory, Unguarded, AWSConfigCliArgs, SharpCliArgs,
                validate_prover_params
<1>10. Guarded("run", "atlantic")
  <2>1. /\ Structs("run")["atlantic"] = AtlanticCliArgs
        /\ Validators["atlantic"] = validate_prover_params.atlantic
    BY RunSections DEF RunCmd, Validators
  <2> QED
    BY <2>1 DEF Guarded, Needed, Mandatory, Unguarded, AWSConfigCliArgs, AtlanticCliArgs,
                validate_prover_params
<1>11. Guarded("run", "layout")
  <2>1. /\ Structs("run")["layout"] = ProverLayoutCliArgs
        /\ Validators["layout"] = validate_proving_layout_name
    BY RunSections DEF RunCmd, Validators
  <2> QED
    BY <2>1 DEF Guarded, Needed, Mandatory, Unguarded, AWSConfigCliArgs, ProverLayoutCliArgs,
                validate_proving_layout_name
<1> QED
  BY <1>1, <1>2, <1>3, <1>4, <1>5, <1>6, <1>7, <1>8, <1>9, <1>10, <1>11, RunSections

\* A section that is taken, on a line that clap lets through, has what its validator needs.
LEMMA PanicsAreExplained ==
  ASSUME NEW line, line.command \in {"setup", "run"}, Accepts(line),
         NEW section \in Sections(line.command), Chosen(line, section), ~Validates(line, section)
  PROVE  Explained(line)
<1> SUFFICES ASSUME ~Explained(line) PROVE FALSE
  OBVIOUS
<1> DEFINE command == line.command
           struct == Structs(command)[section]
<1>1. line.bad = {} /\ Needed(command, section) \cap Unguarded \subseteq line.given
  BY Zenon DEF Explained
<1>2. ~(Needed(command, section) \subseteq line.given)
  BY <1>1 DEF Validates
<1>3. PICK x \in Needed(command, section) : x \notin line.given /\ x \notin Unguarded
  BY <1>1, <1>2, Zenon
<1>4. Guarded(command, section)
  BY SetupGuarded, RunGuarded, Zenon
<1>5. struct.flag # "none" /\ x \in struct.requires \cup Mandatory(command)
  BY <1>3, <1>4, Zenon DEF Guarded
<1>6. struct.flag \in line.given
  BY <1>5, Zenon DEF Chosen
<1>7. struct.flag \in OptionsOf(struct) \cap line.given
  BY <1>5, <1>6, Zenon DEF OptionsOf
<1>8. struct.requires \subseteq line.given /\ Mandatory(command) \subseteq line.given
  <2>1. section \in DOMAIN Structs(command)
    BY DEF Sections
  <2> QED
    BY <1>7, <2>1, Zenon DEF Accepts
<1> QED
  BY <1>3, <1>5, <1>8

\* A group of one flag demands it.
LEMMA FlagGiven ==
  ASSUME NEW flag, NEW given, Cardinality({flag} \cap given) = 1
  PROVE  flag \in given
<1> SUFFICES ASSUME flag \notin given PROVE FALSE
  OBVIOUS
<1>1. {flag} \cap given = {}
  OBVIOUS
<1> QED
  BY <1>1, FS_EmptySet

\* A setup that clap lets through has the flags of all five validators.
LEMMA SetupTakesAll ==
  ASSUME NEW line, line.command = "setup", Accepts(line), NEW section \in Validated
  PROVE  section \in Sections("setup") /\ Chosen(line, section)
<1>1. section \in Sections("setup")
  BY SetupSections DEF Validated
<1>2. {{"aws"}, {"aws_s3"}, {"aws_sqs"}, {"aws_sns"}, {"aws_event_bridge"}}
          \subseteq Groups("setup")
  BY DEF Groups
<1>3. \A f \in {"aws", "aws_s3", "aws_sqs", "aws_sns", "aws_event_bridge"} : f \in line.given
  <2>1. \A group \in Groups("setup") : Cardinality(group \cap line.given) = 1
    BY Zenon DEF Accepts
  <2> QED
    BY <1>2, <2>1, FlagGiven, Zenon
<1>4. SetupCmd[section].flag \in {"aws", "aws_s3", "aws_sqs", "aws_sns", "aws_event_bridge"}
  BY DEF Validated, SetupCmd, AWSConfigCliArgs, AWSS3CliArgs, AWSSQSCliArgs, AWSSNSCliArgs,
         AWSEventBridgeCliArgs
<1> QED
  BY <1>1, <1>3, <1>4, SetupSections, Zenon DEF Chosen

\* What runs was let through; what a validator refused is explained.
RefusalInv ==
    /\ accepted = [setup |-> Accepts(deployment.setup), run |-> Accepts(deployment.run)]
    /\ at # 0 => accepted.setup
    /\ \A p \in Process : stage[p] # "down" => accepted.run
    /\ RefusedExplained

\* Nothing is refused at first.
LEMMA RefusalInit == Init => RefusalInv
  BY DEF Init, RefusalInv, RefusedExplained

\* Only Validate and Configure can refuse, on a command line that clap has let through.
LEMMA RefusalStep ==
  DoneInv /\ PortInv /\ RefusalInv /\ [Next]_vars => RefusalInv'
<1> SUFFICES ASSUME DoneInv, PortInv, RefusalInv, [Next]_vars PROVE RefusalInv'
  OBVIOUS
<1>1. /\ deployment.setup.command = "setup" /\ deployment.run.command = "run"
      /\ deployment.cron \in {"rule", "schedule"}
  BY DeploymentAssumption DEF DoneInv
<1>2. deployment' = deployment /\ accepted' = accepted
  BY DEF Next, SetUp, StartSetup, BreakOff, Validate, CreateQueue, SetAttributes, CreateBucket,
         FindTarget, CreateRole, CreatePolicy, Attach, PutRule, PutTargets, CreateSchedule,
         CreateTopic, Outcome, Launch, Configure, Bind, Consume, Stop, Fire, Work, vars
<1>3. ASSUME at' # 0
      PROVE  accepted.setup
  <2>1. CASE at # 0
    BY <2>1 DEF RefusalInv
  <2>2. CASE at = 0
    BY <1>3, <2>2 DEF Next, SetUp, StartSetup, BreakOff, Validate, CreateQueue, SetAttributes,
         CreateBucket, FindTarget, CreateRole, CreatePolicy, Attach, PutRule, PutTargets,
         CreateSchedule, CreateTopic, Calls, Launch, Configure, Bind, Consume, Stop, Fire, Work, vars,
         setupVars
  <2> QED
    BY <2>1, <2>2
<1>4. ASSUME NEW p \in Process, stage'[p] # "down"
      PROVE  accepted.run
  <2>1. CASE stage[p] # "down"
    BY <2>1 DEF RefusalInv
  <2>2. CASE stage[p] = "down"
    <3>1. stage' # stage
      BY <1>4, <2>2
    <3>2. PICK q \in Process :
                Launch(q) \/ Configure(q) \/ Bind(q) \/ Consume(q) \/ Stop(q)
      BY <3>1 DEF Next, SetUp, StartSetup, BreakOff, Validate, CreateQueue, SetAttributes,
         CreateBucket, FindTarget, CreateRole, CreatePolicy, Attach, PutRule, PutTargets,
         CreateSchedule, CreateTopic, Outcome, Fire, Work, vars, runVars
    <3>3. CASE Launch(q)
      BY <3>3 DEF Launch
    <3>4. CASE Configure(q) \/ Bind(q) \/ Consume(q) \/ Stop(q)
      BY <3>4, <1>4, <2>2 DEF PortInv, Configure, Bind, Consume, Stop, RefusalInv
    <3> QED
      BY <3>2, <3>3, <3>4
  <2> QED
    BY <2>1, <2>2
<1>5. ASSUME refused', ~refused
      PROVE  Explained(deployment.setup) \/ Explained(deployment.run)
  <2>1. Validate \/ \E p \in Process : Configure(p)
    BY <1>5 DEF Next, SetUp, StartSetup, BreakOff, CreateQueue, SetAttributes,
         CreateBucket, FindTarget, CreateRole, CreatePolicy, Attach, PutRule, PutTargets,
         CreateSchedule, CreateTopic, Fire, Work, vars, Launch, Bind, Consume, Stop
  <2>2. CASE Validate
    <3>1. at # 0 /\ Now.name = "validate" /\ ~Validates(deployment.setup, Now.arg)
      BY <1>5, <2>2, Zenon DEF Validate, Calls
    <3>2. Accepts(deployment.setup)
      BY <3>1 DEF RefusalInv
    <3>3. Now \in PlanStep
      <4>1. at \in 1 .. Len(Plan)
        BY <3>1 DEF DoneInv
      <4> QED
        BY <1>1, <4>1, PlanHas, ElementOfSeq DEF Now
    <3>4. Now.arg \in Validated
      BY <3>1, <3>3 DEF PlanStep
    <3>5. PICK section : section = Now.arg
      OBVIOUS
    <3>6. /\ section \in Sections(deployment.setup.command)
          /\ Chosen(deployment.setup, section) /\ ~Validates(deployment.setup, section)
      BY <1>1, <3>1, <3>2, <3>4, <3>5, SetupTakesAll, Zenon
    <3>7. deployment.setup.command \in {"setup", "run"}
      BY <1>1
    <3>8. Explained(deployment.setup)
      BY <3>2, <3>6, <3>7, PanicsAreExplained, SMT
    <3> QED
      BY <3>8
  <2>3. CASE \E p \in Process : Configure(p)
    <3>1. PICK p \in Process : Configure(p)
      BY <2>3
    <3>2. stage[p] = "config" /\ ~Configurable
      BY <1>5, <3>1 DEF Configure
    <3>3. Accepts(deployment.run)
      BY <3>2 DEF RefusalInv
    <3>4. CASE "mongodb" \notin deployment.run.given
      BY <1>1, <3>4 DEF Explained
    <3>5. CASE \E section \in Sections("run") :
                   Chosen(deployment.run, section) /\ ~Validates(deployment.run, section)
      <4>1. PICK section \in Sections(deployment.run.command) :
                   Chosen(deployment.run, section) /\ ~Validates(deployment.run, section)
        BY <1>1, <3>5
      <4>2. deployment.run.command \in {"setup", "run"}
        BY <1>1
      <4>3. Explained(deployment.run)
        BY <3>3, <4>1, <4>2, PanicsAreExplained, SMT
      <4> QED
        BY <4>3
    <3> QED
      BY <3>2, <3>4, <3>5 DEF Configurable
  <2> QED
    BY <2>1, <2>2, <2>3
<1>6. RefusedExplained'
  BY <1>2, <1>5 DEF RefusalInv, RefusedExplained
<1> QED
  BY <1>2, <1>3, <1>4, <1>6 DEF RefusalInv

\* A command line that the argument groups let through makes a validator panic only by a
\* value that does not parse, by an option that no group demands, or by a missing --mongodb.
THEOREM RefusalsAreExplained == Spec => []RefusedExplained
<1>1. RefusalInv => RefusedExplained
  BY DEF RefusalInv
<1> QED
  BY <1>1, DoneStart, DoneStep, PortInit, PortStep, RefusalInit, RefusalStep, PTL DEF Spec
===================================================================================
