------------------------------- MODULE MCLog -------------------------------
(***************************************************************************)
(* Instances of Log for model checking.                                    *)
(***************************************************************************)
EXTENDS Log, TLC

Symmetry == Permutations(Callers) \cup Permutations(Values)
=============================================================================
