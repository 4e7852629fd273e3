---------------------------- MODULE MCKernelWait ----------------------------
(* Values of the constants of KernelWait for its runs. *)
EXTENDS KernelWait, TLC

CONSTANTS t1, t2, autoEv, sem, mut, tm, autoTm

\* What threads race for: an event and a semaphore in one wait, a timer that is used up in another.
RaceArrays == {<<autoEv, sem>>, <<autoTm>>}

ThreadSymmetry == Permutations(Threads)

\* A signal and a timer, so that every wait has a reason to end.
LivenessArrays == {<<autoEv, tm>>}
=============================================================================
