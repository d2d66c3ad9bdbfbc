----------------------------- MODULE MCOfflineSync -----------------------------
(***************************************************************************)
(* Instances of OfflineSync for TLC.                                       *)
(***************************************************************************)
EXTENDS OfflineSync

\* The ids of later mutations sort before those of earlier ones.
Reversed == [a \in Adds |-> 9 - a]

FlushSymmetry == Permutations(Flushes)
=============================================================================
