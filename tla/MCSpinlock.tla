----------------------------- MODULE MCSpinlock -----------------------------
(* Spinlock on a small instance. *)
EXTENDS Spinlock, TLC

Symmetry == Permutations(CPUs) \cup Permutations(Threads)
=============================================================================
