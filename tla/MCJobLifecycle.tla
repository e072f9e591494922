---------------------------- MODULE MCJobLifecycle ----------------------------
(* Values for the constants of JobLifecycle. *)
EXTENDS JobLifecycle, TLC

CONSTANTS t1, t2, t3, r1, r2, j1, j2

\* One process for all tasks, and one process for each of two tasks.
OneHost  == [t \in Task |-> r1]
TwoHosts == (t1 :> r1) @@ (t2 :> r2)

\* Proving retries once (2 attempts), the other handlers do not; two polls are
\* enough for a first, a repeated and a last one.
Attempts1 == [j \in Job |-> 1]
Attempts2 == [j \in Job |-> 2]
Polls0    == [j \in Job |-> 0]
Polls1    == [j \in Job |-> 1]

TaskSymmetry == Permutations(Task)
===============================================================================
