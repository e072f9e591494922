------------------------------- MODULE Deployment -------------------------------
(***************************************************************************)
(* The two commands of the binary.  "setup" makes the cloud resources, one *)
(* call after the other: queues, bucket, role and policy, one trigger per  *)
(* worker, alert topic.  A call that fails, a validator that panics or a   *)
(* crash ends it, and an operator who starts it again starts from the      *)
(* first call, on what is already there.  "run" builds the clients, binds  *)
(* the port of the server, and then starts the consumers.  A trigger       *)
(* reaches its worker through all of it.                                   *)
(***************************************************************************)
EXTENDS CommandLine, Integers, SequencesExt

CONSTANTS
    Process,            \* processes that run the orchestrator on one host
    Deployments,        \* pairs of command lines, with the region and the target queue
    MaxSetups,          \* bound on starts of the setup
    MaxMishaps          \* bound on failing calls and crashes

NoProcess == "none"

ASSUME DeploymentAssumption ==
    /\ NoProcess \notin Process
    /\ \A d \in Deployments : /\ d.setup.command = "setup" /\ d.run.command = "run"
                             /\ d.cron \in {"rule", "schedule"} /\ d.admits \in BOOLEAN
    /\ MaxSetups \in Nat /\ MaxMishaps \in Nat

VARIABLES
    deployment, \* setup, run: the command lines; region; cron: "rule" or "schedule"; target;
                \* admits: the target queue has a policy that lets rules send to it
    accepted,   \* what clap makes of the two lines
    cloud,      \* the resources
    at,         \* the next call of the setup; 0 if it is not running
    setups,     \* starts of the setup
    finished,   \* the setup has once gone through
    stage,      \* of every process: "down", "config", "bind", "consume" or "up"
    port,       \* the process that has bound the port of the server, if any
    fired,      \* triggers in the target queue
    worked,     \* workers that have run
    refused,    \* a validator ended a process
    mishaps

setupVars == <<cloud, at, setups, finished>>
runVars   == <<stage, port, fired, worked>>

vars == <<deployment, accepted, setupVars, runVars, refused, mishaps>>

-------------------------------------------------------------------------------
(* What is set up *)

\* Mutant of QueueNames: the dead letter queue comes last.
FailureQueueLast == <<
    "snos_process", "snos_verify", "proving_process", "proving_verify", "da_process",
    "da_verify", "update_process", "update_verify", "failure", "trigger">>

\* QUEUES, in their order.
QueueNames == <<
    "failure", "snos_process", "snos_verify", "proving_process", "proving_verify",
    "da_process", "da_verify", "update_process", "update_verify", "trigger">>

\* All but these two hand messages over to "failure" after five receives.
DeadLetters(queue) == queue \notin {"failure", "trigger"}

\* WORKER_TRIGGERS
WorkerTriggers == <<"Snos", "Proving", "DataSubmission", "UpdateState">>

\* The queues that init_consumers polls, and the workers that have work to do.
Polled == {"snos_process", "snos_verify", "proving_process", "proving_verify", "da_process",
           "da_verify", "update_process", "update_verify", "failure", "trigger"}
Workers == {"Snos", "Proving", "DataSubmission", "UpdateState"}

Queues == ToSet(QueueNames)

\* A call of the setup, and what it is about.
Step(name, arg) == [name |-> name, arg |-> arg]

QueueSteps(queue) == <<Step("create", queue), Step("attributes", queue)>>

RuleSteps(trigger) == <<Step("put_rule", trigger), Step("put_targets", trigger)>>

ScheduleSteps(trigger) == <<Step("create_schedule", trigger)>>

Flat(names, StepsOf(_)) == FlattenSeq([i \in DOMAIN names |-> StepsOf(names[i])])

\* setup_cloud, for the two kinds of triggers
Plans ==
    LET PlanWith(triggerSteps) ==
            <<Step("validate", "aws"), Step("validate", "sqs")>>
            \o Flat(QueueNames, QueueSteps)
            \o <<Step("validate", "s3"), Step("bucket", ""), Step("validate", "event_bridge"),
                 Step("target", ""), Step("role", ""), Step("policy", ""), Step("attach", "")>>
            \o triggerSteps
            \o <<Step("validate", "sns"), Step("topic", "")>> IN
    [rule     |-> PlanWith(Flat(WorkerTriggers, RuleSteps)),
     schedule |-> PlanWith(Flat(WorkerTriggers, ScheduleSteps))]

Plan == Plans[deployment.cron]

Now == Plan[at]

\* A queue exists from "create" on, but has its timeout and its dead letter queue only
\* when it is "set".
EmptyCloud == [
    queues    |-> [q \in Queues |-> "none"],
    bucket    |-> FALSE,
    roles     |-> 0,
    policies  |-> 0,
    attached  |-> 0,
    targets   |-> [t \in Workers |-> 0],
    schedules |-> [t \in Workers |-> 0],
    topic     |-> FALSE]

Init ==
    /\ deployment \in Deployments
    /\ accepted = [setup |-> Accepts(deployment.setup), run |-> Accepts(deployment.run)]
    /\ cloud = EmptyCloud
    /\ at = 0 /\ setups = 0 /\ finished = FALSE
    /\ stage = [p \in Process |-> "down"] /\ port = NoProcess
    /\ fired = {} /\ worked = {}
    /\ refused = FALSE /\ mishaps = 0

-------------------------------------------------------------------------------
(* setup *)

\* The operator starts the setup, again if it has not gone through.
StartSetup ==
    /\ at = 0 /\ ~finished /\ setups < MaxSetups
    /\ accepted.setup
    /\ at' = 1 /\ setups' = setups + 1
    /\ UNCHANGED <<deployment, accepted, cloud, finished, runVars, refused, mishaps>>

Calls(name) == at # 0 /\ Now.name = name

\* A call that is refused ends the setup.
Outcome(ok, after) ==
    /\ cloud' = IF ok THEN after ELSE cloud
    /\ at' = IF ok /\ at < Len(Plan) THEN at + 1 ELSE 0
    /\ finished' = (ok /\ at = Len(Plan))
    /\ UNCHANGED <<deployment, accepted, setups, runVars, mishaps>>

Validate ==
    /\ Calls("validate")
    /\ Outcome(Validates(deployment.setup, Now.arg), cloud)
    /\ refused' = (refused \/ ~Validates(deployment.setup, Now.arg))

\* Mutant of CreateQueue: a queue that is there is left as it is.
CreateQueueOnce ==
    /\ Calls("create")
    /\ IF cloud.queues[Now.arg] = "none"
       THEN Outcome(TRUE, [cloud EXCEPT !.queues[Now.arg] = "bare"])
       ELSE /\ at' = at + 2
            /\ UNCHANGED <<deployment, accepted, cloud, finished, setups, runVars, mishaps>>
    /\ UNCHANGED refused

CreateQueue ==
    /\ Calls("create")
    /\ Outcome(TRUE, IF cloud.queues[Now.arg] = "none"
                     THEN [cloud EXCEPT !.queues[Now.arg] = "bare"] ELSE cloud)
    /\ UNCHANGED refused

\* The dead letter queue is looked up by its name.
SetAttributes ==
    /\ Calls("attributes")
    /\ Outcome(DeadLetters(Now.arg) => cloud.queues["failure"] # "none",
               [cloud EXCEPT !.queues[Now.arg] = "set"])
    /\ UNCHANGED refused

\* A bucket that exists is an error everywhere but in us-east-1.
CreateBucket ==
    /\ Calls("bucket")
    /\ Outcome(cloud.bucket => deployment.region = "us-east-1", [cloud EXCEPT !.bucket = TRUE])
    /\ UNCHANGED refused

\* The target queue has an option of its own, apart from prefix and suffix.
FindTarget ==
    /\ Calls("target")
    /\ Outcome(deployment.target \in Queues /\ cloud.queues[deployment.target] # "none", cloud)
    /\ UNCHANGED refused

\* Role and policy get new names every time.
CreateRole ==
    /\ Calls("role")
    /\ Outcome(TRUE, [cloud EXCEPT !.roles = @ + 1])
    /\ UNCHANGED refused

CreatePolicy ==
    /\ Calls("policy")
    /\ Outcome(TRUE, [cloud EXCEPT !.policies = @ + 1])
    /\ UNCHANGED refused

Attach ==
    /\ Calls("attach")
    /\ Outcome(TRUE, [cloud EXCEPT !.attached = @ + 1])
    /\ UNCHANGED refused

PutRule == Calls("put_rule") /\ Outcome(TRUE, cloud) /\ UNCHANGED refused

\* A target has a new id every time, so that a second one joins the first.
PutTargets ==
    /\ Calls("put_targets")
    /\ Outcome(TRUE, [cloud EXCEPT !.targets[Now.arg] = @ + 1])
    /\ UNCHANGED refused

\* A schedule has the name of its trigger: creating it again is a conflict.
CreateSchedule ==
    /\ Calls("create_schedule")
    /\ Outcome(cloud.schedules[Now.arg] = 0, [cloud EXCEPT !.schedules[Now.arg] = @ + 1])
    /\ UNCHANGED refused

CreateTopic ==
    /\ Calls("topic")
    /\ Outcome(TRUE, [cloud EXCEPT !.topic = TRUE])
    /\ UNCHANGED refused

\* A call fails, or the process ends before it.
BreakOff ==
    /\ at # 0 /\ mishaps < MaxMishaps
    /\ at' = 0 /\ mishaps' = mishaps + 1
    /\ UNCHANGED <<deployment, accepted, cloud, setups, finished, runVars, refused>>

-------------------------------------------------------------------------------
(* run *)

Launch(p) ==
    /\ stage[p] = "down" /\ accepted.run
    /\ stage' = [stage EXCEPT ![p] = "config"]
    /\ UNCHANGED <<deployment, accepted, setupVars, port, fired, worked, refused, mishaps>>

\* init_config: no argument group asks for the database, its validator does.
Configurable ==
    /\ "mongodb" \in deployment.run.given
    /\ \A section \in Sections("run") :
           Chosen(deployment.run, section) => Validates(deployment.run, section)

Configure(p) ==
    /\ stage[p] = "config"
    /\ stage' = [stage EXCEPT ![p] = IF Configurable THEN "bind" ELSE "down"]
    /\ refused' = (refused \/ ~Configurable)
    /\ UNCHANGED <<deployment, accepted, setupVars, port, fired, worked, mishaps>>

\* setup_server: a port that is taken ends the process.
Bind(p) ==
    /\ stage[p] = "bind"
    /\ stage' = [stage EXCEPT ![p] = IF port = NoProcess THEN "consume" ELSE "down"]
    /\ port' = IF port = NoProcess THEN p ELSE port
    /\ UNCHANGED <<deployment, accepted, setupVars, fired, worked, refused, mishaps>>

\* Mutant of Consume: the consumers do not wait for the server.
ConsumeEarly(p) ==
    /\ stage[p] \in {"bind", "consume"}
    /\ stage' = [stage EXCEPT ![p] = "up"]
    /\ UNCHANGED <<deployment, accepted, setupVars, port, fired, worked, refused, mishaps>>

\* init_consumers
Consume(p) ==
    /\ stage[p] = "consume"
    /\ stage' = [stage EXCEPT ![p] = "up"]
    /\ UNCHANGED <<deployment, accepted, setupVars, port, fired, worked, refused, mishaps>>

\* A crash, Ctrl-C, a database that does not answer.
Stop(p) ==
    /\ stage[p] # "down" /\ mishaps < MaxMishaps
    /\ stage' = [stage EXCEPT ![p] = "down"]
    /\ port' = IF port = p THEN NoProcess ELSE port
    /\ mishaps' = mishaps + 1
    /\ UNCHANGED <<deployment, accepted, setupVars, fired, worked, refused>>

\* A schedule sends with the role it was given; the target of a rule has none, and the
\* setup gives the queue no policy.
MaySend(t) ==
    \/ cloud.schedules[t] > 0 /\ cloud.attached > 0
    \/ cloud.targets[t] > 0 /\ deployment.admits

\* EventBridge sends the name of a worker to the target queue; further messages after the
\* worker has run are left out.
Fire(t) ==
    /\ t \notin worked
    /\ MaySend(t) /\ deployment.target = "trigger"
    /\ fired' = fired \cup {t}
    /\ UNCHANGED <<deployment, accepted, setupVars, stage, port, worked, refused, mishaps>>

\* consume_worker_trigger_messages_from_queue
Work(p, t) ==
    /\ stage[p] = "up" /\ t \in fired
    /\ fired' = fired \ {t} /\ worked' = worked \cup {t}
    /\ UNCHANGED <<deployment, accepted, setupVars, stage, port, refused, mishaps>>

SetUp ==
    \/ Validate \/ CreateQueue \/ SetAttributes \/ CreateBucket \/ FindTarget
    \/ CreateRole \/ CreatePolicy \/ Attach \/ PutRule \/ PutTargets \/ CreateSchedule
    \/ CreateTopic

Next ==
    \/ StartSetup \/ SetUp \/ BreakOff
    \/ \E p \in Process :
        \/ Launch(p) \/ Configure(p) \/ Bind(p) \/ Consume(p) \/ Stop(p)
        \/ \E t \in Workers : Work(p, t)
    \/ \E t \in Workers : Fire(t)

\* The operator starts again what has ended; calls return; EventBridge and the tasks of
\* the runtime go on.
Fairness ==
    /\ WF_vars(StartSetup) /\ WF_vars(SetUp)
    /\ WF_vars(\E t \in Workers : Fire(t))
    /\ WF_vars(\E p \in Process, t \in Workers : Work(p, t))
    /\ \A p \in Process : WF_vars(Launch(p) \/ Configure(p) \/ Bind(p) \/ Consume(p))

Spec == Init /\ [][Next]_vars

LiveSpec == Spec /\ Fairness

-------------------------------------------------------------------------------
(* Properties *)

\* Once a setup has gone through, after however many attempts that broke off anywhere,
\* every queue that is polled has its timeout and dead letter queue, and every worker is
\* triggered: an attempt never takes the half-made work of an earlier one for done.
Wired ==
    finished =>
        /\ \A q \in Polled : cloud.queues[q] = "set"
        /\ cloud.bucket /\ cloud.topic /\ cloud.attached > 0
        /\ \A t \in Workers : cloud.targets[t] + cloud.schedules[t] > 0

\* Of the processes that are started and stopped on a host one at most consumes: a second
\* orchestrator ends before it takes a message, and may go on when the first has stopped.
OneServer == \A p, q \in Process : stage[p] = "up" /\ stage[q] = "up" => p = q

\* Needed by a validator, and named by no requires_all.
Unguarded == {"event_bridge_type", "atlantic_rpc_node_url", "atlantic_mock_fact_hash",
              "atlantic_prover_type"}

\* What the argument groups let through can make a validator panic only by a value that
\* does not parse, by an option that no group demands, or by the missing --mongodb.
Explained(line) ==
    \/ line.bad # {}
    \/ \E section \in Sections(line.command) :
           /\ Chosen(line, section)
           /\ (Needed(line.command, section) \cap Unguarded) \ line.given # {}
    \/ line.command = "run" /\ "mongodb" \notin line.given

RefusedExplained == refused => Explained(deployment.setup) \/ Explained(deployment.run)

\* If both command lines are in order, and the queue admits the rules if they are used,
\* every worker comes to run: where buckets can be made twice and rules are used, through
\* any number of broken attempts; elsewhere, as the README says of the setup, if nothing
\* breaks ("A fresh setup is required if the process fails mid-way").
InOrder ==
    /\ accepted.setup /\ accepted.run
    /\ ~Explained(deployment.setup) /\ ~Explained(deployment.run)
    /\ deployment.target = "trigger"
    /\ deployment.cron = "rule" => deployment.admits

Repeatable == deployment.region = "us-east-1" /\ deployment.cron = "rule"

EveryWorkerRuns ==
    InOrder /\ (Repeatable \/ [](mishaps = 0)) => <>(worked = Workers)
===============================================================================
