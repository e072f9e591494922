----------------------------- MODULE MCStateUpdate -----------------------------
(* Values for the constants of StateUpdate. *)
EXTENDS StateUpdate, TLC

CONSTANTS j1, j2, t1, t2

FromZero   == j1 :> <<0, 1>>
TwoBlocks  == j1 :> <<1, 2>>
ThreeInTwo == (j1 :> <<1, 2>>) @@ (j2 :> <<3>>)
Once       == [j \in Job |-> 1]
TenTimes   == [j \in Job |-> 10]
===============================================================================
