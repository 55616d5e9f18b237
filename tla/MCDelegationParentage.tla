----------------------- MODULE MCDelegationParentage -----------------------
(* A bounded instance of the delegation custody for TLC. *)
EXTENDS DelegationParentage, TLC

\* Bound: how many different notifications come before the end.
CONSTANT MaxTold
FewTold == Cardinality(told) <= MaxTold

ThreadSymmetry == Permutations(Thread)
=============================================================================
