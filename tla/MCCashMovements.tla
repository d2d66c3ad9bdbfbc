--------------------------- MODULE MCCashMovements ---------------------------
(***************************************************************************)
(* Instances of CashMovements for TLC.                                     *)
(***************************************************************************)
EXTENDS CashMovements, TLC

CONSTANTS m1, m2, d1, d2, d3, low, high

\* m1 is an expense above both thresholds; m2 below both.
Amounts == m1 :> 50 @@ m2 :> 5
Thresholds == low :> 10 @@ high :> 40
RoleOfRule == [r \in Rules |-> IF r = low THEN "manager" ELSE "director"]
Deciders == d1 :> {"director"} @@ d2 :> {"director", "manager"} @@ d3 :> {"manager"}

CallSymmetry == Permutations(Posts)
=============================================================================
