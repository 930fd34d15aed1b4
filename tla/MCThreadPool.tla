---------------------------- MODULE MCThreadPool ----------------------------
(* ThreadPool for TLC: workers and jobs are interchangeable. *)
EXTENDS ThreadPool, TLC

Symmetry == Permutations(Worker) \cup Permutations(Job)
=============================================================================
