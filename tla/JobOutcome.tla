------------------------------ MODULE JobOutcome ------------------------------
(***************************************************************************)
(* What the workers can tell of a job: whether it exists, is being worked  *)
(* on, was rejected by its verification, is completed, or has halted the   *)
(* orchestrator.  JobLifecycle implements this module; Pipeline uses it    *)
(* for the jobs its workers create.                                        *)
(***************************************************************************)
CONSTANTS
    Job,                        \* the (job type, internal id) pairs
    Outcomes                    \* which of "reject", "halt", "retry", "verify" occur

VARIABLE standing               \* the standing of every job

Standings == {"Absent", "Open", "Rejected", "Completed", "Halted"}

\* Job j passes from one of the standings `from` to the standing `to`.
Pass(j, from, to) ==
    /\ standing[j] \in from
    /\ standing' = [standing EXCEPT ![j] = to]

Open(j)     == Pass(j, {"Absent"}, "Open")

\* A verification that timed out may still be answered by a late message.
Complete(j) == Pass(j, {"Open", "Halted"}, "Completed")
Reject(j)   == "reject" \in Outcomes /\ Pass(j, {"Open", "Halted"}, "Rejected")

Halt(j)     == "halt" \in Outcomes /\ Pass(j, {"Open", "Rejected"}, "Halted")

\* A rejected job is processed again.
Again(j)    == Pass(j, {"Rejected"}, "Open")

\* The operator's /retry and /verify.
Retry(j)    == "retry" \in Outcomes /\ Pass(j, {"Halted"}, "Open")
Reverify(j) == "verify" \in Outcomes /\ Pass(j, {"Rejected", "Completed", "Halted"}, "Open")

Init == standing = [j \in Job |-> "Absent"]

\* The steps that handlers take with a job, and those that an operator takes.
Work(j)    == Complete(j) \/ Reject(j) \/ Halt(j) \/ Again(j)
Operate(j) == Retry(j) \/ Reverify(j)

Next == \E j \in Job : Open(j) \/ Work(j) \/ Operate(j)

Spec == Init /\ [][Next]_standing
===============================================================================
