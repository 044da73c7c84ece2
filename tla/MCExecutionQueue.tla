-------------------------- MODULE MCExecutionQueue --------------------------
(* Instances of ExecutionQueue for TLC. *)
EXTENDS ExecutionQueue, TLC

\* Ids, workers and threads are interchangeable where no liveness
\* property is checked.
Symmetry ==
  Permutations(Executions) \cup Permutations(Workers) \cup Permutations(Threads)

=============================================================================
