-------------------------- MODULE MCCanteraLocking --------------------------
(* CanteraLocking for TLC: the workloads of the three source files apart   *)
(* and of the whole element cache.                                         *)
EXTENDS CanteraLocking, TLC

CONSTANTS t1, t2, t3

TwoThreads == {t1, t2}
ThreeThreads == {t1, t2, t3}
ThreadSymmetry == Permutations(TwoThreads)

\* The locked calls of one source file each.
OneFileWorkloads == {<<"mu", "k", "D">>, <<"cp", "cv", "h_s", "h_species">>,
                     <<"omega_dot", "omega_dot_TRY">>}

ElementWorkload == {ElementCalls}
=============================================================================
