-------------------------- MODULE MCTitleLifecycle --------------------------
(* Model-checking instances of TitleLifecycle. *)
EXTENDS TitleLifecycle, TLC

\* The threads of the guest are interchangeable.
ThreadSymmetry == Permutations(Threads)

=============================================================================
