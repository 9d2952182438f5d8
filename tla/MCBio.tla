------------------------------- MODULE MCBio -------------------------------
(***************************************************************************)
(* Instances of Bio for model checking.                                    *)
(***************************************************************************)
EXTENDS Bio, TLC

Symmetry == Permutations(Procs)
=============================================================================
