---------------------------- MODULE MCKernelModules ----------------------------
(* Values of the constants of KernelModules: two modules linked for overlapping bases inside
   the pool. *)
EXTENDS KernelModules, TLC
Symmetry == Permutations(Threads)
MCModules == {"a", "b"}
MCPreferred == [m \in MCModules |-> IF m = "a" THEN 2 ELSE 3]
MCSpan == [m \in MCModules |-> IF m = "a" THEN 2 ELSE 1]
=============================================================================
