------------------------------ MODULE MCBlocks ------------------------------
(***************************************************************************)
(* Blocks on small instances.  Processes and files are interchangeable;    *)
(* blocks are not, since balloc takes the first.                           *)
(***************************************************************************)
EXTENDS Blocks, TLC

Symmetry == Permutations(Procs) \cup Permutations(Files) \cup Permutations(Inodes \ {root})
=============================================================================
