---------------------------- MODULE MCDeliveries ----------------------------
(***************************************************************************)
(* Instances of Deliveries for TLC.                                        *)
(***************************************************************************)
EXTENDS Deliveries, TLC

\* Every delivery carries a fee; a second one, when there is one, does not.
FeeOnFirst == [d \in Deliveries |-> d = CHOOSE e \in Deliveries : TRUE]

Symmetry == Permutations(Updates) \cup Permutations(Proofs)
=============================================================================
