------------------------ MODULE MCExecutionLifecycle ------------------------
(* Instances of ExecutionLifecycle for TLC. *)
EXTENDS ExecutionLifecycle, TLC

\* Ids are interchangeable where no liveness property is checked.
ExecutionSymmetry == Permutations(Executions)

=============================================================================
