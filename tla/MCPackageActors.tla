---------------------------- MODULE MCPackageActors ----------------------------
(* PackageActors for TLC: the processes are alike. *)
EXTENDS PackageActors, TLC
Symmetry == Permutations(Proc)
================================================================================
