------------------------------ MODULE MCBlockWork ------------------------------
(* Values for the constants of BlockWork. *)
EXTENDS BlockWork, TLC

CONSTANTS t1, t2

\* max_process_attempts and max_verification_attempts; the 300 polls of a proof are one.
Attempts      == [j \in Job |-> IF j = "proof" THEN 2 ELSE 1]
Verifications == [j \in Job |-> CASE j = "snos" -> 1 [] j = "proof" -> 1 [] j = "da" -> 3]
===============================================================================
