-------------------------- MODULE SchedulerProofs --------------------------
(***************************************************************************)
(* Proofs about how a run of the Scheduler ends, for every set of plans:   *)
(* whatever the graph, the policies, the loops, the limits, the requests   *)
(* of clients and the faults.                                              *)
(***************************************************************************)
EXTENDS Scheduler, TLAPS

-----------------------------------------------------------------------------
(* The steps of a task. *)

\* What a step of a task in flight, of a client or of the clock leaves alone:
\* everything EndInv speaks of but the stages of tasks and their rows.
Elsewhere ==
  UNCHANGED <<plan, pc, completed, failed, skipped, suppressed, fail_fast, stopped_early,
              abort_reason, outcome, unwound>>

\* A step that keeps the same nodes in flight, cancels no row and changes
\* nothing else keeps the invariant.
LEMMA QuietStep ==
  ASSUME EndInv, Elsewhere,
         task' \in [Nodes -> {"none", "queued", "starting", "executing", "returned", "saving",
                              "backoff", "ok", "error"}],
         row' \in [Nodes -> Statuses],
         running' = running,
         \A n \in Nodes : row'[n] = "CANCELLED" => row[n] = "CANCELLED"
  PROVE  EndInv'
BY DEF EndInv, Elsewhere, ResultsFinal, CauseKept, OutcomeLast, LoopLeftWhole,
       CompletedIsWhole, StopDrains, settled, Nodes

\* A node's own steps: from the semaphore over its attempts to its result.
LEMMA NodeStepKeepsInv ==
  ASSUME EndInv, NEW n \in Nodes, NodeStep(n)
  PROVE  EndInv'
<1>1. /\ Elsewhere
      /\ task' \in [Nodes -> {"none", "queued", "starting", "executing", "returned", "saving",
                              "backoff", "ok", "error"}]
      /\ row' \in [Nodes -> Statuses]
      /\ running' = running
      /\ \A m \in Nodes : row'[m] = "CANCELLED" => row[m] = "CANCELLED"
  <2> USE DEF EndInv, Elsewhere, graphVars, haltVars, envVars, Nodes, running, Statuses
  <2>1. CASE Start(n)
    BY <2>1 DEF Start
  <2>2. CASE Attempt(n)
    BY <2>2 DEF Attempt
  <2>3. CASE \E d \in plan.decisions[n] : ExecutorReturns(n, d)
    BY <2>3 DEF ExecutorReturns
  <2>4. CASE AttemptSucceeds(n)
    BY <2>4 DEF AttemptSucceeds
  <2>5. CASE Save(n)
    BY <2>5 DEF Save
  <2>6. CASE \E retryable \in BOOLEAN : AttemptFails(n, retryable)
    BY <2>6 DEF AttemptFails
  <2> QED
    BY <2>1, <2>2, <2>3, <2>4, <2>5, <2>6 DEF NodeStep
<1> QED
  BY <1>1, QuietStep

-----------------------------------------------------------------------------
(* The steps of the loop. *)

\* Steps that only move the loop between two of its reads.
LEMMA ReadsKeepInv ==
  ASSUME EndInv, Top \/ Unpark \/ Wait \/ WaitTimesOut \/ BatchProcessed
  PROVE  EndInv'
<1> USE DEF EndInv, ResultsFinal, CauseKept, OutcomeLast, LoopLeftWhole, CompletedIsWhole,
            StopDrains, settled, running, Nodes, graphVars, haltVars, taskVars, envVars, Goto
<1>1. CASE Top
  BY <1>1 DEF Top
<1>2. CASE Unpark
  BY <1>2 DEF Unpark
<1>3. CASE Wait
  BY <1>3 DEF Wait
<1>4. CASE WaitTimesOut
  BY <1>4 DEF WaitTimesOut
<1>5. CASE BatchProcessed
  BY <1>5 DEF BatchProcessed
<1> QED
  BY <1>1, <1>2, <1>3, <1>4, <1>5

\* The tasks that are cancelled have neither completed nor failed, and the rows
\* of the other nodes stay as they are.
LEMMA UnwindKeepsInv ==
  ASSUME EndInv, NEW status \in {"FAILED", "CANCELLED"}, Unwind(status)
  PROVE  EndInv'
BY DEF EndInv, ResultsFinal, CauseKept, OutcomeLast, LoopLeftWhole, CompletedIsWhole,
       StopDrains, settled, running, Nodes, graphVars, haltVars, taskVars, envVars, Goto,
       Unwind, CancelTasks, Statuses

\* The reads of is_cancelled and is_stopping, the latter with the loop's exit.
LEMMA ChecksKeepInv ==
  ASSUME EndInv, CheckCancelled \/ CheckStopping
  PROVE  EndInv'
<1>1. CASE CheckCancelled /\ Run \in cancelled
  BY <1>1, UnwindKeepsInv DEF CheckCancelled
<1> USE DEF EndInv, ResultsFinal, CauseKept, OutcomeLast, LoopLeftWhole, CompletedIsWhole,
            StopDrains, settled, running, Nodes, graphVars, haltVars, taskVars, envVars, Goto
<1>2. CASE CheckCancelled /\ Run \notin cancelled
  BY <1>2 DEF CheckCancelled
<1>3. CASE CheckStopping
  BY <1>3 DEF CheckStopping
<1> QED
  BY <1>1, <1>2, <1>3

\* Only nodes without a result are started; a loop left with nothing in flight
\* has marked what it leaves behind, or says why it does not.
LEMMA DispatchKeepsInv ==
  ASSUME EndInv, Dispatch
  PROVE  EndInv'
<1> DEFINE wanted == IF fail_fast \/ stopped_early \/ Run \in paused THEN {} ELSE ready
           room == WORKFLOW_MAX_NODE_EXECUTIONS - node_run_count
           started == {n \in wanted : Cardinality({m \in wanted : m < n}) < room}
           capped == started # wanted
           idle == running \cup started = {}
           stalled == IF idle /\ ~(fail_fast \/ capped \/ stopped_early)
                      THEN Nodes \ settled ELSE {}
<1>1. /\ pc = "dispatch"
      /\ task' = [n \in Nodes |-> IF n \in started THEN "queued" ELSE task[n]]
      /\ abort_reason' = (abort_reason \/ capped)
      /\ fail_fast' = (fail_fast \/ capped)
      /\ skipped' = skipped \cup stalled
      /\ row' = SkipRows(stalled)
      /\ pc' = IF idle THEN "decide" ELSE "wait"
      /\ UNCHANGED <<plan, completed, failed, suppressed, stopped_early, outcome, unwound>>
  BY DEF Dispatch, Goto, envVars
<1>2. started \cap (completed \cup failed) = {}
  BY DEF ready, settled
<1>3. capped \in BOOLEAN /\ idle \in BOOLEAN
  OBVIOUS
<1>4. idle => stalled = Nodes \ settled \/ fail_fast \/ capped \/ stopped_early
  OBVIOUS
<1> HIDE DEF started, capped, idle, stalled
<1> USE DEF EndInv, Nodes
<1>5. /\ task' \in [Nodes -> {"none", "queued", "starting", "executing", "returned", "saving",
                              "backoff", "ok", "error"}]'
      /\ ResultsFinal'
  BY <1>1, <1>2 DEF ResultsFinal, running
<1>6. row' \in [Nodes -> Statuses]' /\ StopDrains'
  BY <1>1, <1>3 DEF StopDrains, SkipRows, Statuses
<1>7. CauseKept' /\ OutcomeLast' /\ CompletedIsWhole'
  BY <1>1, <1>3 DEF CauseKept, OutcomeLast, CompletedIsWhole
<1>8. LoopLeftWhole'
  BY <1>1, <1>3, <1>4 DEF LoopLeftWhole, CauseKept, settled
<1> QED
  BY <1>1, <1>3, <1>5, <1>6, <1>7, <1>8

\* A result is booked as the task is dropped; "continue" forgets a failure only
\* of the node at hand, which has no other.
LEMMA ResultKeepsInv ==
  ASSUME EndInv, NEW n \in Nodes, NodeCompleted(n) \/ NodeFailed(n)
  PROVE  EndInv'
<1> USE DEF EndInv, ResultsFinal, CauseKept, OutcomeLast, LoopLeftWhole, CompletedIsWhole,
            StopDrains, running, Nodes, haltVars, envVars, PopTask, Statuses
<1>1. CASE NodeCompleted(n)
  BY <1>1 DEF NodeCompleted
<1>2. CASE NodeFailed(n) /\ OnError[n] = "continue"
  BY <1>2 DEF NodeFailed
<1>3. CASE NodeFailed(n) /\ OnError[n] = "skip_branch"
  BY <1>3 DEF NodeFailed, SkipRows
<1>4. CASE NodeFailed(n) /\ OnError[n] \notin {"continue", "skip_branch"}
  BY <1>4 DEF NodeFailed
<1> QED
  BY <1>1, <1>2, <1>3, <1>4

\* A round of a loop begins only in a run that is not failing; the end of the
\* batch cancels tasks only in one that is.
LEMMA RoundKeepsInv ==
  ASSUME EndInv, LoopEdge \/ AfterBatch
  PROVE  EndInv'
<1> USE DEF EndInv, ResultsFinal, CauseKept, OutcomeLast, LoopLeftWhole, CompletedIsWhole,
            StopDrains, running, Nodes, haltVars, graphVars, taskVars, envVars, Statuses, Goto
<1>1. CASE LoopEdge
  BY <1>1 DEF LoopEdge
<1>2. CASE AfterBatch
  BY <1>2 DEF AfterBatch, CancelTasks, settled
<1> QED
  BY <1>1, <1>2

\* The outcome is COMPLETED for a run that left its loop whole, and for no other.
LEMMA EndKeepsInv ==
  ASSUME EndInv, Decide \/ Finalise
  PROVE  EndInv'
BY DEF EndInv, ResultsFinal, CauseKept, OutcomeLast, LoopLeftWhole, CompletedIsWhole,
       StopDrains, settled, running, Nodes, haltVars, graphVars, taskVars, envVars,
       Goto, Decide, Finalise

-----------------------------------------------------------------------------
(* The whole. *)

\* Nothing has happened in the initial states.
LEMMA InvInitially == Init => EndInv
BY DEF Init, EndInv, ResultsFinal, CauseKept, OutcomeLast, LoopLeftWhole, CompletedIsWhole,
       StopDrains, settled, running, Nodes, Statuses

\* Every step of the scheduler, of tasks, of clients and of what goes wrong
\* keeps the invariant.
LEMMA InvInductive == EndInv /\ [Next]_vars => EndInv'
<1> SUFFICES ASSUME EndInv, [Next]_vars PROVE EndInv'
  OBVIOUS
<1>1. CASE SchedulerStep
  BY <1>1, ReadsKeepInv, ChecksKeepInv, DispatchKeepsInv, ResultKeepsInv, RoundKeepsInv,
     EndKeepsInv DEF SchedulerStep
<1>2. CASE \E n \in Nodes : NodeStep(n)
  BY <1>2, NodeStepKeepsInv
<1>3. CASE (\E kind \in plan.requests : Client(kind)) \/ Deadline \/ UNCHANGED vars
  BY <1>3, QuietStep DEF Client, Deadline, vars, Elsewhere, EndInv, running, Nodes,
     graphVars, haltVars, taskVars
<1>4. CASE Interrupt \/ EngineFault
  BY <1>4, UnwindKeepsInv DEF Interrupt, EngineFault
<1> QED
  BY <1>1, <1>2, <1>3, <1>4 DEF Next

\* How runs end: the inductive invariant holds in every reachable state.
THEOREM EndSafety == Spec => []EndInv
BY InvInitially, InvInductive, PTL DEF Spec

\* run_execution_v2 reports COMPLETED only for a run that left no node
\* undecided, no failure unreported, and neither its deadline nor its cap on
\* node executions in the way.
THEOREM CompletedMeansWhole == Spec => []CompletedIsWhole
<1>1. EndInv => CompletedIsWhole
  BY DEF EndInv
<1> QED
  BY <1>1, EndSafety, PTL

\* A graceful stop drains: without a failure and without a cancellation of the
\* whole run no row of a node becomes CANCELLED.
THEOREM StopsDrain == Spec => []StopDrains
<1>1. EndInv => StopDrains
  BY DEF EndInv
<1> QED
  BY <1>1, EndSafety, PTL

=============================================================================
