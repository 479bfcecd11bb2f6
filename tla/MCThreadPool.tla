---------------------------- MODULE MCThreadPool ----------------------------
(* ThreadPool for TLC: the tasks are interchangeable.  The workers are not, *)
(* since shutDownThreadPool joins them in the order of their numbers.       *)
EXTENDS ThreadPool, TLC

Symmetry == Permutations(Tasks)
=============================================================================
