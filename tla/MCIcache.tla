----------------------------- MODULE MCIcache ------------------------------
(***************************************************************************)
(* Icache on a small instance, in which processes are interchangeable.     *)
(***************************************************************************)
EXTENDS Icache, TLC

Symmetry == Permutations(Procs)
=============================================================================
