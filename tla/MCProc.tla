------------------------------- MODULE MCProc -------------------------------
(* Proc on small instances. *)
EXTENDS Proc, TLC

CpuSymmetry == Permutations(CPUs)
=============================================================================
