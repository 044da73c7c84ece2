---------------------- MODULE ExecutionLifecycleProofs ----------------------
(***************************************************************************)
(* Proofs about ExecutionLifecycle, for every set of executions, threads   *)
(* and workers, every capacity, every workflow size and every number of    *)
(* crashes.  The queue's part of the invariant is not proved again: every  *)
(* step but a crash is a step of ExecutionQueue, whose proofs are used     *)
(* through an instance.                                                    *)
(***************************************************************************)
EXTENDS ExecutionLifecycle, FiniteSetTheorems, TLAPS

QP == INSTANCE ExecutionQueueProofs

-----------------------------------------------------------------------------
(* The queue inside the lifecycle. *)

\* Q, the queue the model is built from, and QP, the one its proofs speak of,
\* are the same queue.
LEMMA SameQueueTypes == Q!TypeOK <=> QP!TypeOK
BY DEF Q!TypeOK, QP!TypeOK, Q!QueuedExecution, QP!QueuedExecution

\* And so is what the queue's invariant says of them.
LEMMA SameQueueInv == Q!QueueInv <=> QP!QueueInv
<1>1. Q!HeapConsistent <=> QP!HeapConsistent
  BY DEF Q!HeapConsistent, QP!HeapConsistent
<1>2. Q!AdmissionBound <=> QP!AdmissionBound
  BY DEF Q!AdmissionBound, QP!AdmissionBound, Q!Cardinality, QP!Cardinality,
         Q!Maximum, QP!Maximum
<1>3. Q!RunsOnce <=> QP!RunsOnce
  BY DEF Q!RunsOnce, QP!RunsOnce
<1>4. Q!SlotsMatch <=> QP!SlotsMatch
  BY DEF Q!SlotsMatch, QP!SlotsMatch
<1>5. Q!NoLostWakeup <=> QP!NoLostWakeup
  BY DEF Q!NoLostWakeup, QP!NoLostWakeup
<1>6. Q!IsFiniteSet(heap) <=> QP!IsFiniteSet(heap)
  BY DEF Q!IsFiniteSet, QP!IsFiniteSet
<1> QED
  BY <1>1, <1>2, <1>3, <1>4, <1>5, <1>6 DEF Q!QueueInv, QP!QueueInv

\* The queue's invariant survives every step of the queue.
LEMMA QueueStepSafe ==
  Q!TypeOK /\ Q!QueueInv /\ [QP!Next]_(QP!vars) => Q!TypeOK' /\ Q!QueueInv'
<1>1. QP!TypeOK /\ QP!QueueInv /\ [QP!Next]_(QP!vars) => QP!QueueInv'
  BY QP!QueueInvInductive, LifecycleAssumption DEF QP!IsFiniteSet, IsFiniteSet
<1>2. QP!TypeOK /\ [QP!Next]_(QP!vars) => QP!TypeOK'
  BY QP!TypeInductive, LifecycleAssumption DEF QP!IsFiniteSet, IsFiniteSet
<1> QED
  BY <1>1, <1>2, SameQueueTypes, SameQueueInv, PTL

\* A step of the lifecycle that is no crash is a step of the queue or leaves
\* the queue alone.  It only puts executions that were never started.
LEMMA StepsOfTheQueue ==
  LifecycleInv /\ [Next]_vars => Crash \/ [QP!Next]_(QP!vars)
<1> SUFFICES ASSUME LifecycleInv, [Next]_vars
             PROVE  Crash \/ QP!Next \/ UNCHANGED QP!vars
  OBVIOUS
<1>1. ASSUME NEW t \in Threads, NEW p \in Priorities, Enqueue(t, p)
      PROVE  QP!Next
  <2>1. op[t].id \in Executions \ started
    BY <1>1 DEF Enqueue, LifecycleInv, RequestsServed, AdmittedOnce, SoleOwner, Submitting, Idle
  <2>2. QP!Put(t, op[t].id, p)
    BY <1>1 DEF Enqueue, Q!Put, QP!Put, Q!Maximum, QP!Maximum, Q!Cardinality, QP!Cardinality,
                Q!poolVars, QP!poolVars
  <2> QED
    BY <2>1, <2>2 DEF QP!Next, QP!Produce
<1>2. ASSUME NEW t \in Threads, EnqueueFull(t)
      PROVE  UNCHANGED QP!vars
  BY <1>2 DEF EnqueueFull, Q!PutFull, Q!vars, QP!vars
<1>3. ASSUME NEW t \in Threads, Signal(t)
      PROVE  QP!Next
  BY <1>3 DEF Signal, Q!PutSignal, QP!PutSignal, Q!EventAfter, QP!EventAfter, Q!queueVars,
              QP!queueVars, Q!poolVars, QP!poolVars, QP!Next
<1>4. ASSUME NEW t \in Threads, DequeueRequest(t)
      PROVE  QP!Next \/ UNCHANGED QP!vars
  <2>1. CASE Q!Cancel(op[t].id)
    <3>1. op[t].id \in Executions
      BY <1>4 DEF DequeueRequest, LifecycleInv, RequestsServed, Idle
    <3>2. QP!Cancel(op[t].id)
      BY <2>1 DEF Q!Cancel, QP!Cancel, Q!poolVars, QP!poolVars
    <3> QED
      BY <3>1, <3>2 DEF QP!Next
  <2>2. CASE UNCHANGED queueVars
    BY <2>2 DEF queueVars, QP!vars
  <2> QED
    BY <1>4, <2>1, <2>2 DEF DequeueRequest
<1>5. ASSUME NEW w \in Workers, NEW x \in heap, Take(w, x)
      PROVE  QP!Next
  <2>1. QP!Dequeue(w, x)
    BY <1>5 DEF Take, Q!Dequeue, QP!Dequeue, Q!Discarded, QP!Discarded, Q!Before, QP!Before
  <2> QED
    BY <2>1 DEF QP!Next, QP!WorkerStep
<1>6. ASSUME NEW w \in Workers, WorkerWaits(w) \/ WorkerFree(w)
      PROVE  QP!Next
  BY <1>6 DEF WorkerWaits, WorkerFree, Q!WaitForEntry, QP!WaitForEntry, Q!Wake, QP!Wake,
              Q!GetTimeout, QP!GetTimeout, Q!HandlerEnds, QP!HandlerEnds, Q!queueVars,
              QP!queueVars, QP!WorkerStep, QP!Next
<1>7. ASSUME NEW t \in Threads,
             \/ Register(t) \/ MarkQueued(t) \/ FinishQueued(t) \/ ReleaseQueued(t)
             \/ GetHandle(t) \/ AcceptRequest(t) \/ RefuseRequest(t) \/ WriteRequested(t)
             \/ NewRequest(t)
      PROVE  UNCHANGED QP!vars
  BY <1>7 DEF Register, MarkQueued, FinishQueued, ReleaseQueued, GetHandle, AcceptRequest,
              RefuseRequest, WriteRequested, NewRequest, Submit, BeginCancel, BeginControl,
              queueVars, QP!vars
<1>8. ASSUME NEW e \in Executions, RunStep(e) \/ WaitTimesOut(e)
      PROVE  UNCHANGED QP!vars
  BY <1>8 DEF RunStep, WaitTimesOut, LoadPlan, RejectPlan, LoadFails, WriteRunning, CheckPause,
              WritePaused, Unpark, CheckHalt, Dispatch, NodeEnds, Decide, Finalise,
              ReleaseHandle, queueVars, QP!vars
<1>9. CASE UNCHANGED vars
  BY <1>9 DEF vars, QP!vars
<1> QED
  BY <1>1, <1>2, <1>3, <1>4, <1>5, <1>6, <1>7, <1>8, <1>9
  DEF Next, ThreadStep, WorkerStep

\* A crash leaves an empty queue, which is a consistent one.
LEMMA CrashEmptiesQueue ==
  LifecycleInv /\ Crash => Q!TypeOK' /\ Q!QueueInv'
<1> SUFFICES ASSUME LifecycleInv, Crash PROVE Q!TypeOK' /\ Q!QueueInv'
  OBVIOUS
<1>1. Q!TypeOK'
  BY DEF Crash, LifecycleInv, ControlConsistent, TypeOK, Q!TypeOK
<1>2. Q!IsFiniteSet({}) /\ Q!Cardinality({}) = 0
  BY FS_EmptySet DEF Q!IsFiniteSet, IsFiniteSet, Q!Cardinality, Cardinality
<1>3. Q!AdmissionBound'
  BY <1>2, LifecycleAssumption DEF Crash, Q!AdmissionBound, Q!Maximum
<1> QED
  BY <1>1, <1>2, <1>3
  DEF Crash, Q!QueueInv, Q!HeapConsistent, Q!RunsOnce, Q!SlotsMatch, Q!NoLostWakeup

\* So the queue's invariant survives every step of the lifecycle.
LEMMA QueueKept == LifecycleInv /\ [Next]_vars => Q!TypeOK' /\ Q!QueueInv'
BY StepsOfTheQueue, CrashEmptiesQueue, QueueStepSafe
DEF LifecycleInv, ControlConsistent, TypeOK

-----------------------------------------------------------------------------
(* The rest of the invariant: one lemma per action, or per shape of step. *)

RunRecord == [pc : Places, left : 0..MaxNodes, busy : BOOLEAN, failed : BOOLEAN,
              stopped : BOOLEAN, outcome : Terminal \cup {None}]
OpRecord == [kind : {"idle", "submit", "pause", "resume", "stop", "cancel"},
             id : Executions \cup {None}, step : Steps]
OutsideEngine == {"idle", "release", "ended"}

\* A step of the scheduler's loop: only the run's own record changes, it stays
\* in the engine, and the row may be written with a status that is not an end.
LEMMA RunMoves ==
  ASSUME LifecycleInv, Q!TypeOK', Q!QueueInv',
         NEW e \in Executions, NEW r \in RunRecord,
         Working(e), r.pc \notin OutsideEngine,
         r.pc = "finalise" => r.outcome # None,
         e \in haltAccepted => r.outcome # "COMPLETED",
         run' = [run EXCEPT ![e] = r],
         \/ status' = status
         \/ \E s \in Active : status' = [status EXCEPT ![e] = s],
         UNCHANGED <<queueVars, controlVars, op, haltAccepted, crashes>>
  PROVE  LifecycleInv'
<1>1. UNCHANGED <<queued_ids, started, handles, paused, stopping, cancelRequested, op,
                  haltAccepted, crashes>>
  BY DEF queueVars, controlVars
<1>2. /\ run \in [Executions -> RunRecord]
      /\ \A f \in Executions \ {e} : run'[f] = run[f]
      /\ run'[e] = r
  BY DEF LifecycleInv, ControlConsistent, TypeOK, RunRecord
<1>3. /\ status \in [Executions -> Active \cup Terminal \cup {"ABSENT"}]
      /\ \A f \in Executions \ {e} : status'[f] = status[f]
      /\ status'[e] = status[e] \/ status'[e] \in Active
  BY DEF LifecycleInv, ControlConsistent, TypeOK
<1>4. \A f \in Executions : Working(f)' <=> Working(f)
  BY <1>2 DEF Working, OutsideEngine
<1>5. "ABSENT" \notin Active /\ Active \cap Terminal = {}
  BY DEF Active, Terminal
<1>6. ControlConsistent'
  <2>1. status' \in [Executions -> Active \cup Terminal \cup {"ABSENT"}]
    BY <1>3
  <2>2. run' \in [Executions -> RunRecord]
    BY <1>2
  <2> QED
    BY <1>1, <2>1, <2>2
    DEF LifecycleInv, ControlConsistent, TypeOK, FlagsConsistent, C!FlagsConsistent, RunRecord
<1>7. LiveRunsControllable'
  BY <1>1, <1>4 DEF LifecycleInv, LiveRunsControllable
<1>8. HaltNotLost'
  BY <1>1, <1>2 DEF LifecycleInv, ControlConsistent, TypeOK, HaltNotLost
<1>9. TerminalMeansOver'
  BY <1>1, <1>3, <1>4, <1>5 DEF LifecycleInv, TerminalMeansOver
<1>10. RequestsServed' /\ AbsentIsNowhere'
  <2>1. \A f \in Executions : status'[f] = "ABSENT" => status[f] = "ABSENT"
    BY <1>3, <1>5
  <2> QED
    BY <1>1, <2>1 DEF LifecycleInv, RequestsServed, AbsentIsNowhere
<1>11. AdmittedOnce' /\ WithdrawnNeverRuns'
  <2>1. \A f \in Executions : status'[f] \in Terminal => status[f] \in Terminal
    BY <1>3, <1>5
  <2> QED
    BY <1>1, <2>1
    DEF LifecycleInv, AdmittedOnce, SoleOwner, WithdrawnNeverRuns, Submitting, Withdrawing
<1>12. RunsStarted'
  BY <1>1, <1>2 DEF LifecycleInv, RunsStarted, Working, OutsideEngine
<1>13. HaltHeld'
  BY <1>1, <1>4 DEF LifecycleInv, ControlConsistent, TypeOK, HaltHeld, Submitting
<1> QED
  BY <1>6, <1>7, <1>8, <1>9, <1>10, <1>11, <1>12, <1>13 DEF LifecycleInv

\* Every step of the scheduler's loop has that shape.
LEMMA LoopKeepsInv ==
  ASSUME LifecycleInv, Q!TypeOK', Q!QueueInv', NEW e \in Executions,
         \/ \E n \in 0..MaxNodes : LoadPlan(e, n)
         \/ RejectPlan(e) \/ WriteRunning(e) \/ CheckPause(e) \/ WritePaused(e)
         \/ Unpark(e) \/ CheckHalt(e) \/ Dispatch(e) \/ NodeEnds(e) \/ WaitTimesOut(e)
         \/ Decide(e)
  PROVE  LifecycleInv'
<1> USE LifecycleAssumption
<1>1. /\ run \in [Executions -> RunRecord]
      /\ e \in haltAccepted => run[e].outcome # "COMPLETED"
  BY DEF LifecycleInv, ControlConsistent, TypeOK, RunRecord, HaltNotLost
<1>2. \E r \in RunRecord :
        /\ Working(e) /\ r.pc \notin OutsideEngine
        /\ r.pc = "finalise" => r.outcome # None
        /\ e \in haltAccepted => r.outcome # "COMPLETED"
        /\ run' = [run EXCEPT ![e] = r]
  <2>1. CASE \E n \in 0..MaxNodes : LoadPlan(e, n)
    <3>1. PICK n \in 0..MaxNodes : LoadPlan(e, n)
      BY <2>1
    <3> DEFINE r == [run[e] EXCEPT !.pc = "start", !.left = n]
    <3>2. r \in RunRecord /\ run' = [run EXCEPT ![e] = r]
      BY <1>1, <3>1 DEF LoadPlan, RunRecord, Places
    <3> QED
      BY <1>1, <3>1, <3>2 DEF LoadPlan, Working, OutsideEngine, RunRecord
  <2>2. CASE RejectPlan(e)
    <3> DEFINE r == [run[e] EXCEPT !.pc = "finalise", !.outcome = "FAILED"]
    <3>1. r \in RunRecord /\ run' = [run EXCEPT ![e] = r]
      BY <1>1, <2>2 DEF RejectPlan, RunRecord, Places, Terminal
    <3> QED
      BY <1>1, <2>2, <3>1 DEF RejectPlan, Working, OutsideEngine, RunRecord
  <2>3. ASSUME NEW where \in Places \ (OutsideEngine \cup {"finalise"}), Working(e),
               RunGoto(e, where)
        PROVE  \E r \in RunRecord :
                 /\ Working(e) /\ r.pc \notin OutsideEngine
                 /\ r.pc = "finalise" => r.outcome # None
                 /\ e \in haltAccepted => r.outcome # "COMPLETED"
                 /\ run' = [run EXCEPT ![e] = r]
    <3> DEFINE r == [run[e] EXCEPT !.pc = where]
    <3>1. r \in RunRecord /\ run' = [run EXCEPT ![e] = r]
      BY <1>1, <2>3 DEF RunGoto, RunRecord
    <3> QED
      BY <1>1, <2>3, <3>1 DEF RunRecord
  <2>4. CASE WriteRunning(e) \/ CheckPause(e) \/ WritePaused(e) \/ Unpark(e) \/ WaitTimesOut(e)
    <3>1. Working(e) /\ \E where \in Places \ (OutsideEngine \cup {"finalise"}) : RunGoto(e, where)
      BY <2>4 DEF WriteRunning, CheckPause, WritePaused, Unpark, WaitTimesOut, Working, Places,
                  OutsideEngine
    <3> QED
      BY <2>3, <3>1
  <2>5. CASE CheckHalt(e)
    <3> DEFINE r == IF e \in cancelRequested
                    THEN [run[e] EXCEPT !.pc = "finalise", !.busy = FALSE, !.outcome = "CANCELLED"]
                    ELSE [run[e] EXCEPT !.stopped = @ \/ e \in stopping,
                                        !.pc = IF run[e].left = 0 /\ ~run[e].busy
                                               THEN "decide" ELSE "dispatch"]
    <3>1. CASE e \in cancelRequested
      <4>1. r = [run[e] EXCEPT !.pc = "finalise", !.busy = FALSE, !.outcome = "CANCELLED"]
        BY <3>1
      <4>2. run' = [run EXCEPT ![e] = r] /\ Working(e)
        BY <1>1, <2>5, <3>1 DEF CheckHalt, Working
      <4> HIDE DEF r
      <4>3. r \in RunRecord /\ r.pc = "finalise" /\ r.outcome = "CANCELLED"
        BY <1>1, <4>1 DEF RunRecord, Places, Terminal
      <4> QED
        BY <4>2, <4>3 DEF OutsideEngine
    <3>2. CASE e \notin cancelRequested
      <4> DEFINE where == IF run[e].left = 0 /\ ~run[e].busy THEN "decide" ELSE "dispatch"
                 halted == run[e].stopped \/ e \in stopping
      <4>1. r = [run[e] EXCEPT !.stopped = halted, !.pc = where]
        BY <1>1, <3>2 DEF RunRecord
      <4>2. where \in Places /\ halted \in BOOLEAN
        BY DEF Places
      <4>3. r \in RunRecord
        BY <1>1, <4>1, <4>2 DEF RunRecord
      <4>4. run' = [run EXCEPT ![e] = r]
        BY <1>1, <2>5, <3>2 DEF CheckHalt
      <4>5. r.pc = where /\ r.outcome = run[e].outcome
        BY <1>1, <4>1 DEF RunRecord
      <4>6. Working(e) /\ where \notin OutsideEngine \cup {"finalise"}
        BY <2>5 DEF CheckHalt, Working, OutsideEngine
      <4> HIDE DEF r, where
      <4> QED
        BY <1>1, <4>3, <4>4, <4>5, <4>6
    <3> QED
      BY <3>1, <3>2
  <2>6. CASE Dispatch(e)
    <3> DEFINE go == ~run[e].stopped /\ e \notin paused /\ run[e].left > 0 /\ ~run[e].busy
               r == [run[e] EXCEPT !.pc = IF go \/ run[e].busy THEN "wait" ELSE "decide",
                                   !.left = IF go THEN @ - 1
                                            ELSE IF run[e].busy \/ run[e].stopped THEN @ ELSE 0,
                                   !.busy = @ \/ go]
    <3>1. run' = [run EXCEPT ![e] = r]
      BY <1>1, <2>6 DEF Dispatch
    <3> DEFINE where == IF go \/ run[e].busy THEN "wait" ELSE "decide"
               left == IF go THEN run[e].left - 1
                       ELSE IF run[e].busy \/ run[e].stopped THEN run[e].left ELSE 0
               busy == run[e].busy \/ go
    <3>2. r = [run[e] EXCEPT !.pc = where, !.left = left, !.busy = busy]
      BY <1>1 DEF RunRecord
    <3>3. where \in Places /\ busy \in BOOLEAN /\ left \in 0..MaxNodes
      BY <1>1 DEF RunRecord, Places
    <3>4. r \in RunRecord /\ r.pc = where /\ r.outcome = run[e].outcome
      <4> HIDE DEF where, left, busy, r
      <4> QED
        BY <1>1, <3>2, <3>3 DEF RunRecord
    <3>5. Working(e) /\ where \notin OutsideEngine \cup {"finalise"}
      BY <2>6 DEF Dispatch, Working, OutsideEngine
    <3> HIDE DEF r, where
    <3> QED
      BY <1>1, <3>1, <3>4, <3>5
  <2>7. CASE NodeEnds(e)
    <3> DEFINE r1 == [run[e] EXCEPT !.pc = "loop", !.busy = FALSE]
               r2 == [run[e] EXCEPT !.pc = "decide", !.busy = FALSE, !.failed = TRUE]
    <3>1. r1 \in RunRecord /\ r2 \in RunRecord
      BY <1>1 DEF RunRecord, Places
    <3>2. run' = [run EXCEPT ![e] = r1] \/ run' = [run EXCEPT ![e] = r2]
      BY <1>1, <2>7 DEF NodeEnds
    <3> QED
      BY <1>1, <2>7, <3>1, <3>2 DEF NodeEnds, Working, OutsideEngine, RunRecord
  <2>8. CASE Decide(e)
    <3> DEFINE r == [run[e] EXCEPT !.pc = "finalise",
                                   !.outcome = IF run[e].failed THEN "FAILED"
                                               ELSE IF run[e].stopped \/ e \in stopping
                                               THEN "CANCELLED" ELSE "COMPLETED"]
    <3>1. r \in RunRecord /\ run' = [run EXCEPT ![e] = r]
      BY <1>1, <2>8 DEF Decide, RunRecord, Places, Terminal
    <3>2. Working(e)
      BY <2>8 DEF Decide, Working
    <3>3. e \in haltAccepted => r.outcome # "COMPLETED"
      BY <1>1, <3>2 DEF LifecycleInv, HaltHeld, RunRecord
    <3> QED
      BY <1>1, <3>1, <3>2, <3>3 DEF OutsideEngine, RunRecord
  <2> QED
    BY <2>1, <2>2, <2>4, <2>5, <2>6, <2>7, <2>8
<1>3. \/ status' = status
      \/ \E s \in Active : status' = [status EXCEPT ![e] = s]
  BY DEF LoadPlan, RejectPlan, WriteRunning, CheckPause, WritePaused, Unpark, CheckHalt,
         Dispatch, NodeEnds, WaitTimesOut, Decide, Active
<1>4. UNCHANGED <<queueVars, controlVars, op, haltAccepted, crashes>>
  BY DEF LoadPlan, RejectPlan, WriteRunning, CheckPause, WritePaused, Unpark, CheckHalt,
         Dispatch, NodeEnds, WaitTimesOut, Decide
<1> QED
  BY <1>2, <1>3, <1>4, RunMoves

\* The engine lets a run go: the handle is released, after the terminal row was
\* written or because loading the plan raised.
LEMMA EndKeepsInv ==
  ASSUME LifecycleInv, Q!TypeOK', Q!QueueInv', NEW e \in Executions,
         LoadFails(e) \/ ReleaseHandle(e)
  PROVE  LifecycleInv'
<1>1. /\ UNCHANGED <<queued_ids, started, paused, stopping, cancelRequested, status, op,
                     haltAccepted, crashes>>
      /\ handles' = handles \ {e}
  BY DEF LoadFails, ReleaseHandle, C!Release, queueVars
<1>2. /\ run \in [Executions -> RunRecord]
      /\ run[e].pc \in {"load", "release"}
      /\ run' = [run EXCEPT ![e].pc = "ended"]
  BY DEF LifecycleInv, ControlConsistent, TypeOK, RunRecord, LoadFails, ReleaseHandle, RunGoto
<1>3. /\ run' \in [Executions -> RunRecord]
      /\ \A f \in Executions \ {e} : run'[f] = run[f]
      /\ run'[e].pc = "ended" /\ run'[e].outcome = run[e].outcome
  BY <1>2 DEF RunRecord, Places
<1>4. \A f \in Executions : Working(f)' <=> Working(f) /\ f # e
  BY <1>3 DEF Working
<1>5. e \in started /\ e \notin queued_ids
  BY <1>2 DEF LifecycleInv, RunsStarted, Q!QueueInv, Q!RunsOnce
<1>6. ControlConsistent'
  BY <1>1, <1>3
  DEF LifecycleInv, ControlConsistent, TypeOK, FlagsConsistent, C!FlagsConsistent, RunRecord
<1>7. LiveRunsControllable'
  BY <1>1, <1>4, <1>5 DEF LifecycleInv, LiveRunsControllable
<1>8. HaltNotLost' /\ HaltHeld'
  <2>1. haltAccepted \subseteq Executions
    BY DEF LifecycleInv, ControlConsistent, TypeOK
  <2> QED
    BY <1>1, <1>3, <1>4, <2>1 DEF LifecycleInv, HaltNotLost, HaltHeld, Submitting
<1>9. TerminalMeansOver' /\ RequestsServed' /\ AbsentIsNowhere' /\ WithdrawnNeverRuns'
  BY <1>1, <1>4
  DEF LifecycleInv, TerminalMeansOver, RequestsServed, AbsentIsNowhere, WithdrawnNeverRuns,
      Withdrawing
<1>10. AdmittedOnce'
  BY <1>1, <1>5 DEF LifecycleInv, AdmittedOnce, SoleOwner, Submitting, Withdrawing
<1>11. RunsStarted'
  BY <1>1, <1>3, <1>5 DEF LifecycleInv, RunsStarted
<1> QED
  BY <1>6, <1>7, <1>8, <1>9, <1>10, <1>11 DEF LifecycleInv

\* The engine writes the terminal row of a run it still holds.
LEMMA FinaliseKeepsInv ==
  ASSUME LifecycleInv, Q!TypeOK', Q!QueueInv', NEW e \in Executions, Finalise(e)
  PROVE  LifecycleInv'
<1>1. UNCHANGED <<queued_ids, started, handles, paused, stopping, cancelRequested, op,
                  haltAccepted, crashes>>
  BY DEF Finalise, queueVars, controlVars
<1>2. /\ run \in [Executions -> RunRecord]
      /\ run[e].pc = "finalise"
      /\ run' = [run EXCEPT ![e].pc = "release"]
      /\ status' = [status EXCEPT ![e] = run[e].outcome]
  BY DEF LifecycleInv, ControlConsistent, TypeOK, RunRecord, Finalise, RunGoto
<1>3. /\ run' \in [Executions -> RunRecord]
      /\ \A f \in Executions \ {e} : run'[f] = run[f]
      /\ run'[e].pc = "release" /\ run'[e].outcome = run[e].outcome
  BY <1>2 DEF RunRecord, Places
<1>4. \A f \in Executions : Working(f)' <=> Working(f) /\ f # e
  BY <1>3 DEF Working
<1>5. e \in started /\ e \notin queued_ids
  BY <1>2 DEF LifecycleInv, RunsStarted, Q!QueueInv, Q!RunsOnce
<1>6. /\ status' \in [Executions -> Active \cup Terminal \cup {"ABSENT"}]
      /\ \A f \in Executions \ {e} : status'[f] = status[f]
      /\ status'[e] \in Terminal
  <2>1. run[e].outcome \in Terminal
    BY <1>2 DEF LifecycleInv, RunsStarted, RunRecord
  <2> QED
    BY <1>2, <2>1 DEF LifecycleInv, ControlConsistent, TypeOK
<1>7. ControlConsistent'
  BY <1>1, <1>3, <1>6
  DEF LifecycleInv, ControlConsistent, TypeOK, FlagsConsistent, C!FlagsConsistent, RunRecord
<1>8. LiveRunsControllable' /\ TerminalMeansOver'
  BY <1>1, <1>4, <1>5, <1>6 DEF LifecycleInv, LiveRunsControllable, TerminalMeansOver
<1>9. HaltNotLost' /\ HaltHeld'
  <2>1. haltAccepted \subseteq Executions
    BY DEF LifecycleInv, ControlConsistent, TypeOK
  <2> QED
    BY <1>1, <1>3, <1>4, <2>1 DEF LifecycleInv, HaltNotLost, HaltHeld, Submitting
<1>10. RequestsServed' /\ AbsentIsNowhere' /\ WithdrawnNeverRuns'
  BY <1>1, <1>6
  DEF LifecycleInv, RequestsServed, AbsentIsNowhere, WithdrawnNeverRuns, Withdrawing, Terminal
<1>11. AdmittedOnce'
  BY <1>1, <1>5, <1>6 DEF LifecycleInv, AdmittedOnce, SoleOwner, Submitting, Withdrawing
<1>12. RunsStarted'
  BY <1>1, <1>3, <1>5 DEF LifecycleInv, RunsStarted
<1> QED
  BY <1>7, <1>8, <1>9, <1>10, <1>11, <1>12 DEF LifecycleInv

\* A step that changes none of the variables the invariant relates, a wake-up
\* or an idle worker for instance, keeps it.
LEMMA UnrelatedKeepsInv ==
  ASSUME LifecycleInv, Q!TypeOK', Q!QueueInv',
         UNCHANGED <<queued_ids, started, controlVars, status, op, engineVars, crashes>>
  PROVE  LifecycleInv'
BY DEF LifecycleInv, ControlConsistent, TypeOK, FlagsConsistent, C!FlagsConsistent,
       LiveRunsControllable, HaltNotLost, TerminalMeansOver, RequestsServed, AbsentIsNowhere,
       AdmittedOnce, SoleOwner, WithdrawnNeverRuns, RunsStarted, HaltHeld, Submitting,
       Withdrawing, Working, controlVars, engineVars

\* A request goes on, begins or returns without touching queue or flags: it
\* comes to hold a handle only if one is registered, and writes no end.
LEMMA RequestMoves ==
  ASSUME LifecycleInv, Q!TypeOK', Q!QueueInv',
         NEW t \in Threads, NEW r \in OpRecord,
         op' = [op EXCEPT ![t] = r],
         \/ r = Idle
         \/ /\ r.kind # "idle" /\ r.id \in Executions
            /\ status[r.id] # "ABSENT"
            /\ r.step \in StepsOf[r.kind]
            /\ r.step \notin {"register", "put", "finish", "release"}
            /\ r.step = "request" => r.id \in handles,
         \/ status' = status
         \/ \E f \in Executions, s \in Active :
              status[f] # "ABSENT" /\ status' = [status EXCEPT ![f] = s],
         UNCHANGED <<queued_ids, started, controlVars, engineVars, crashes>>
  PROVE  LifecycleInv'
<1>1. UNCHANGED <<queued_ids, started, handles, paused, stopping, cancelRequested, run,
                  haltAccepted, crashes>>
  BY DEF controlVars, engineVars
<1>2. /\ op \in [Threads -> OpRecord]
      /\ \A u \in Threads \ {t} : op'[u] = op[u]
      /\ op'[t] = r
  BY DEF LifecycleInv, ControlConsistent, TypeOK, OpRecord
<1>3. /\ status \in [Executions -> Active \cup Terminal \cup {"ABSENT"}]
      /\ status' \in [Executions -> Active \cup Terminal \cup {"ABSENT"}]
      /\ \A f \in Executions : /\ status'[f] \in Terminal => status[f] \in Terminal
                               /\ status'[f] = "ABSENT" <=> status[f] = "ABSENT"
  BY DEF LifecycleInv, ControlConsistent, TypeOK, Active, Terminal
<1>4. \A f \in Executions : Working(f)' <=> Working(f)
  BY <1>1 DEF Working
<1>5. \A f \in Executions, u \in Threads :
        /\ Submitting(u, f)' => u # t /\ Submitting(u, f)
        /\ Withdrawing(u, f)' => u # t /\ Withdrawing(u, f)
  BY <1>2 DEF Submitting, Withdrawing, Idle
<1>6. ControlConsistent'
  <2>1. op' \in [Threads -> OpRecord]
    BY <1>2
  <2> QED
    BY <1>1, <1>3, <2>1
    DEF LifecycleInv, ControlConsistent, TypeOK, FlagsConsistent, C!FlagsConsistent, OpRecord
<1>7. LiveRunsControllable' /\ TerminalMeansOver' /\ HaltNotLost' /\ RunsStarted'
      /\ AbsentIsNowhere'
  BY <1>1, <1>3, <1>4
  DEF LifecycleInv, LiveRunsControllable, TerminalMeansOver, HaltNotLost, RunsStarted,
      AbsentIsNowhere
<1>8. RequestsServed'
  BY <1>2, <1>3 DEF LifecycleInv, RequestsServed
<1>9. AdmittedOnce'
  BY <1>1, <1>2, <1>3, <1>5 DEF LifecycleInv, AdmittedOnce, SoleOwner, Idle
<1>10. WithdrawnNeverRuns'
  BY <1>1, <1>5 DEF LifecycleInv, WithdrawnNeverRuns
<1>11. HaltHeld'
  <2>1. haltAccepted \subseteq Executions
    BY DEF LifecycleInv, ControlConsistent, TypeOK
  <2> QED
    BY <1>1, <1>4, <1>5, <2>1 DEF LifecycleInv, HaltHeld
<1> QED
  BY <1>6, <1>7, <1>8, <1>9, <1>10, <1>11 DEF LifecycleInv

\* Which requests reach which step.
Kinds == {"idle", "submit", "pause", "resume", "stop", "cancel"}
\* A step tells the kind of call that takes it.
LEMMA KindOfStep ==
  ASSUME NEW kind \in Kinds, NEW step \in StepsOf[kind]
  PROVE  /\ step \in Steps
         /\ step \in {"register", "put", "mark"} => kind = "submit"
         /\ step \in {"finish", "release"} => kind = "stop"
         /\ step = "dequeue" => kind \in {"stop", "cancel"}
         /\ step = "write" => kind \in {"pause", "resume", "stop"}
         /\ step = "request" => kind \in {"pause", "resume", "stop", "cancel"}
         /\ step = "none" => kind = "idle"
<1>1. CASE kind = "idle" BY <1>1 DEF StepsOf, Steps
<1>2. CASE kind = "submit" BY <1>2 DEF StepsOf, Steps
<1>3. CASE kind = "pause" BY <1>3 DEF StepsOf, Steps
<1>4. CASE kind = "resume" BY <1>4 DEF StepsOf, Steps
<1>5. CASE kind = "stop" BY <1>5 DEF StepsOf, Steps
<1>6. CASE kind = "cancel" BY <1>6 DEF StepsOf, Steps
<1> QED
  BY <1>1, <1>2, <1>3, <1>4, <1>5, <1>6 DEF Kinds

\* The requests that begin, look up a handle, are refused or write a status
\* that is not an end have that shape.
LEMMA PlainRequestKeepsInv ==
  ASSUME LifecycleInv, Q!TypeOK', Q!QueueInv', NEW t \in Threads,
         \/ EnqueueFull(t) \/ MarkQueued(t) \/ GetHandle(t) \/ RefuseRequest(t)
         \/ WriteRequested(t)
         \/ \E e \in Executions :
              \/ BeginCancel(t, e)
              \/ \E kind \in {"pause", "resume", "stop"} : BeginControl(t, kind, e)
         \/ DequeueRequest(t) /\ UNCHANGED queueVars
  PROVE  LifecycleInv'
<1>1. /\ op \in [Threads -> OpRecord]
      /\ Idle \in OpRecord
      /\ op[t] = Idle \/ /\ op[t].kind # "idle" /\ op[t].id \in Executions
                         /\ status[op[t].id] # "ABSENT"
                         /\ op[t].step \in StepsOf[op[t].kind]
  BY DEF LifecycleInv, ControlConsistent, TypeOK, OpRecord, RequestsServed, Idle, Steps
<1>2. UNCHANGED <<queued_ids, started, controlVars, engineVars, crashes>>
  BY DEF EnqueueFull, Q!PutFull, Q!vars, MarkQueued, GetHandle, RefuseRequest, WriteRequested,
         BeginCancel, BeginControl, DequeueRequest, queueVars
<1>3. ASSUME Return(t), status' = status
             \/ \E f \in Executions, s \in Active :
                  status[f] # "ABSENT" /\ status' = [status EXCEPT ![f] = s]
      PROVE  LifecycleInv'
  BY <1>1, <1>2, <1>3, RequestMoves DEF Return
<1>4. ASSUME op[t] # Idle, Goto(t, "get"), op[t].step = "dequeue", status' = status
      PROVE  LifecycleInv'
  <2> DEFINE r == [op[t] EXCEPT !.step = "get"]
  <2>1. op' = [op EXCEPT ![t] = r] /\ r \in OpRecord
    BY <1>1, <1>4 DEF Goto, OpRecord, Steps
  <2>2. r.kind # "idle" /\ r.id \in Executions /\ status[r.id] # "ABSENT" /\ r.step = "get"
        /\ r.step \in StepsOf[r.kind]
    BY <1>1, <1>4 DEF OpRecord, StepsOf
  <2> HIDE DEF r
  <2> QED
    BY <1>2, <1>4, <2>1, <2>2, RequestMoves
<1>5. CASE EnqueueFull(t) \/ RefuseRequest(t)
  BY <1>3, <1>5 DEF EnqueueFull, RefuseRequest
<1>6. CASE MarkQueued(t)
  <2>1. op[t].id \in Executions /\ status[op[t].id] # "ABSENT"
    BY <1>1, <1>6 DEF MarkQueued, Idle
  <2>2. "QUEUED" \in Active
    BY DEF Active
  <2> QED
    BY <1>3, <1>6, <2>1, <2>2 DEF MarkQueued
<1>7. CASE WriteRequested(t)
  <2>1. op[t].id \in Executions /\ status[op[t].id] # "ABSENT"
        /\ op[t].kind \in {"pause", "resume", "stop"}
    <3>1. op[t].step = "write" /\ op[t] # Idle
      BY <1>7 DEF WriteRequested, Idle
    <3> QED
      BY <1>1, <3>1, KindOfStep DEF OpRecord, Kinds
  <2>2. {"PAUSING", "RUNNING", "STOPPING"} \subseteq Active
    BY DEF Active
  <2> QED
    BY <1>3, <1>7, <2>1, <2>2 DEF WriteRequested
<1>8. CASE GetHandle(t)
  <2>1. CASE op[t].id \in handles
    <3> DEFINE r == [op[t] EXCEPT !.step = "request"]
    <3>1. op' = [op EXCEPT ![t] = r] /\ r \in OpRecord /\ status' = status
      BY <1>1, <1>8, <2>1 DEF GetHandle, Goto, OpRecord, Steps
    <3>2. /\ r.kind # "idle" /\ r.id \in Executions /\ status[r.id] # "ABSENT"
          /\ r.step = "request" /\ r.step \in StepsOf[r.kind] /\ r.id \in handles
      BY <1>1, <1>8, <2>1 DEF GetHandle, OpRecord, StepsOf, Idle
    <3> HIDE DEF r
    <3> QED
      BY <1>2, <3>1, <3>2, RequestMoves
  <2>2. CASE op[t].id \notin handles
    BY <1>3, <1>8, <2>2 DEF GetHandle
  <2> QED
    BY <2>1, <2>2
<1>9. ASSUME NEW e \in Executions,
             BeginCancel(t, e) \/ \E kind \in {"pause", "resume", "stop"} : BeginControl(t, kind, e)
      PROVE  LifecycleInv'
  <2>1. PICK r \in OpRecord :
          /\ op' = [op EXCEPT ![t] = r]
          /\ r.id = e /\ r.kind # "idle" /\ r.step \in StepsOf[r.kind]
          /\ r.step \in {"dequeue", "get"}
    <3>1. CASE BeginCancel(t, e)
      <4>1. Request("cancel", e, "dequeue") \in OpRecord
        BY DEF Request, OpRecord, Steps
      <4> QED
        BY <3>1, <4>1 DEF BeginCancel, Request, StepsOf
    <3>2. ASSUME NEW kind \in {"pause", "resume", "stop"}, BeginControl(t, kind, e)
          PROVE  \E r \in OpRecord :
                   /\ op' = [op EXCEPT ![t] = r]
                   /\ r.id = e /\ r.kind # "idle" /\ r.step \in StepsOf[r.kind]
                   /\ r.step \in {"dequeue", "get"}
      <4> DEFINE r == Request(kind, e, IF kind = "stop" THEN "dequeue" ELSE "get")
      <4>1. r \in OpRecord
        BY DEF Request, OpRecord, Steps
      <4>2. r.kind = kind /\ r.id = e /\ r.step = IF kind = "stop" THEN "dequeue" ELSE "get"
        BY DEF Request
      <4>3. r.step \in StepsOf[r.kind] /\ r.step \in {"dequeue", "get"}
        <5>1. CASE kind = "stop" BY <4>2, <5>1 DEF StepsOf
        <5>2. CASE kind = "pause" BY <4>2, <5>2 DEF StepsOf
        <5>3. CASE kind = "resume" BY <4>2, <5>3 DEF StepsOf
        <5> QED
          BY <5>1, <5>2, <5>3
      <4>4. op' = [op EXCEPT ![t] = r]
        BY <3>2 DEF BeginControl
      <4> HIDE DEF r
      <4> QED
        BY <4>1, <4>2, <4>3, <4>4
    <3> QED
      BY <1>9, <3>1, <3>2
  <2>2. status[e] # "ABSENT" /\ status' = status
    BY <1>9 DEF BeginCancel, BeginControl, Active
  <2> QED
    BY <1>2, <2>1, <2>2, RequestMoves
<1>10. CASE DequeueRequest(t) /\ UNCHANGED queueVars
  <2>1. Goto(t, "get") \/ Q!Cancel(op[t].id)
    BY <1>10 DEF DequeueRequest
  <2>2. ~Q!Cancel(op[t].id)
    BY <1>10 DEF Q!Cancel, queueVars
  <2> QED
    BY <1>4, <1>10, <2>1, <2>2 DEF DequeueRequest, Idle
<1> QED
  BY <1>5, <1>6, <1>7, <1>8, <1>9, <1>10

\* An accepted request sets the flags of the run; a halt that counts as
\* accepted stands in them from then on.
LEMMA AcceptKeepsInv ==
  ASSUME LifecycleInv, Q!TypeOK', Q!QueueInv', NEW t \in Threads, AcceptRequest(t)
  PROVE  LifecycleInv'
<1> DEFINE e == op[t].id
<1> USE LifecycleAssumption
<1>1. /\ op \in [Threads -> OpRecord]
      /\ e \in Executions /\ status[e] # "ABSENT"
      /\ op[t].step = "request" /\ op[t].kind \in {"pause", "resume", "stop", "cancel"}
  BY DEF LifecycleInv, ControlConsistent, TypeOK, OpRecord, RequestsServed, AcceptRequest, Idle,
         StepsOf
<1>2. /\ UNCHANGED <<queued_ids, started, handles, status, run, crashes>>
      /\ paused' \subseteq paused \cup {e}
      /\ stopping \subseteq stopping' /\ stopping' \subseteq stopping \cup {e}
      /\ cancelRequested' \subseteq cancelRequested \cup {e}
      /\ op[t].kind \in {"stop", "cancel"} => e \in stopping'
      /\ FlagsConsistent'
  BY <1>1 DEF AcceptRequest, queueVars, C!Accept, C!RequestPause, C!RequestResume, C!RequestStop,
         C!RequestCancel, C!ShouldHalt, LifecycleInv, ControlConsistent, FlagsConsistent,
         C!FlagsConsistent
<1>3. /\ op' \in [Threads -> OpRecord]
      /\ \A u \in Threads \ {t} : op'[u] = op[u]
      /\ op'[t] = Idle \/ (op'[t] = [op[t] EXCEPT !.step = "write"] /\ op[t].kind # "cancel")
  <2>1. Idle \in OpRecord /\ [op[t] EXCEPT !.step = "write"] \in OpRecord
    BY <1>1 DEF Idle, OpRecord, Steps
  <2> QED
    BY <1>1, <2>1 DEF AcceptRequest, Return, Goto
<1>4. \A f \in Executions, u \in Threads :
        /\ Submitting(u, f)' <=> Submitting(u, f)
        /\ Withdrawing(u, f)' <=> Withdrawing(u, f)
        /\ Submitting(u, f) => u # t
  BY <1>1, <1>3 DEF Submitting, Withdrawing, Idle, OpRecord
<1>5. /\ haltAccepted' \subseteq Executions
      /\ \A f \in haltAccepted' : f \in haltAccepted \/ (f = e /\ e \in stopping' /\ Undecided(e))
  BY <1>1, <1>2 DEF AcceptRequest, LifecycleInv, ControlConsistent, TypeOK
<1>6. e \notin Executions \/ ~\E u \in Threads : Submitting(u, e) /\ op[u].step = "register"
  BY <1>1 DEF LifecycleInv, AdmittedOnce, SoleOwner
<1>7. ControlConsistent'
  BY <1>1, <1>2, <1>3, <1>5 DEF LifecycleInv, ControlConsistent, TypeOK, OpRecord
<1>8. LiveRunsControllable' /\ TerminalMeansOver' /\ RunsStarted'
  BY <1>2 DEF LifecycleInv, LiveRunsControllable, TerminalMeansOver, RunsStarted, Working
<1>9. HaltNotLost'
  BY <1>2, <1>5 DEF LifecycleInv, HaltNotLost, Undecided
<1>10. RequestsServed'
  BY <1>1, <1>2, <1>3 DEF LifecycleInv, RequestsServed, StepsOf, OpRecord
<1>11. AbsentIsNowhere'
  BY <1>1, <1>2, <1>5 DEF LifecycleInv, AbsentIsNowhere
<1>12. AdmittedOnce' /\ WithdrawnNeverRuns'
  <2>1. \A u \in Threads : op'[u].step \in {"register", "put"} => op'[u] = op[u]
    BY <1>3 DEF Idle, OpRecord
  <2>2. \A u \in Threads : op'[u].step = "request" => op'[u] = op[u]
    BY <1>1, <1>3 DEF Idle, OpRecord
  <2>3. AdmittedOnce'
    <3> SUFFICES ASSUME NEW f \in Executions, NEW u \in Threads, Submitting(u, f)'
               PROVE  SoleOwner(u, f)'
      BY DEF AdmittedOnce
    <3>1. Submitting(u, f) /\ op'[u] = op[u]
      BY <1>3, <1>4
    <3>2. op[u].step = "register" => f # e
      BY <1>6, <1>1, <3>1
    <3> QED
      BY <1>1, <1>2, <1>3, <1>4, <1>5, <2>2, <3>1, <3>2 DEF LifecycleInv, AdmittedOnce, SoleOwner
  <2> QED
    BY <1>2, <1>4, <2>3 DEF LifecycleInv, WithdrawnNeverRuns
<1>13. HaltHeld'
  BY <1>2, <1>4, <1>5 DEF LifecycleInv, HaltHeld, Working
<1> QED
  BY <1>7, <1>8, <1>9, <1>10, <1>11, <1>12, <1>13 DEF LifecycleInv, ControlConsistent

\* A row is inserted for an execution nothing was known of.
LEMMA SubmitKeepsInv ==
  ASSUME LifecycleInv, Q!TypeOK', Q!QueueInv', NEW t \in Threads, NEW e \in Executions,
         Submit(t, e)
  PROVE  LifecycleInv'
<1> USE LifecycleAssumption
<1>1. /\ UNCHANGED <<queued_ids, started, handles, paused, stopping, cancelRequested, run,
                     haltAccepted, crashes>>
      /\ status[e] = "ABSENT"
  BY DEF Submit, queueVars, controlVars, engineVars
<1>2. /\ op \in [Threads -> OpRecord] /\ op' \in [Threads -> OpRecord]
      /\ \A u \in Threads \ {t} : op'[u] = op[u]
      /\ op'[t] = Request("submit", e, "register")
  <2>1. Request("submit", e, "register") \in OpRecord
    BY DEF Request, OpRecord, Steps
  <2> QED
    BY <2>1 DEF Submit, LifecycleInv, ControlConsistent, TypeOK, OpRecord
<1>3. /\ status' \in [Executions -> Active \cup Terminal \cup {"ABSENT"}]
      /\ \A f \in Executions \ {e} : status'[f] = status[f]
      /\ status'[e] \in Active
  BY DEF Submit, LifecycleInv, ControlConsistent, TypeOK, Active
<1>4. \A u \in Threads : op[u].id # e
  BY <1>1 DEF LifecycleInv, RequestsServed, Idle
<1>5. e \notin queued_ids \cup started \cup handles \cup haltAccepted
  BY <1>1 DEF LifecycleInv, AbsentIsNowhere
<1>6. \A f \in Executions, u \in Threads :
        /\ Withdrawing(u, f)' <=> Withdrawing(u, f) /\ u # t
        /\ Submitting(u, f)' <=> (Submitting(u, f) /\ u # t) \/ (u = t /\ f = e)
  <2>1. op[t] = Idle
    BY DEF Submit
  <2> QED
    BY <1>2, <2>1 DEF Withdrawing, Submitting, Request, Idle
<1>7. ControlConsistent'
  BY <1>1, <1>2, <1>3
  DEF LifecycleInv, ControlConsistent, TypeOK, FlagsConsistent, C!FlagsConsistent, OpRecord
<1>8. LiveRunsControllable' /\ TerminalMeansOver' /\ HaltNotLost' /\ RunsStarted'
  BY <1>1, <1>3
  DEF LifecycleInv, LiveRunsControllable, TerminalMeansOver, HaltNotLost, RunsStarted, Working,
      Active, Terminal
<1>9. RequestsServed' /\ AbsentIsNowhere'
  BY <1>1, <1>2, <1>3
  DEF LifecycleInv, RequestsServed, AbsentIsNowhere, Request, StepsOf, Active
<1>10. AdmittedOnce'
  <2> SUFFICES ASSUME NEW f \in Executions, NEW u \in Threads, Submitting(u, f)'
               PROVE  SoleOwner(u, f)'
    BY DEF AdmittedOnce
  <2>1. CASE f = e
    <3>1. u = t
      BY <1>4, <1>6, <2>1 DEF Submitting
    <3>2. \A v \in Threads : ~Withdrawing(v, e)' /\ (Submitting(v, e)' => v = t)
      BY <1>4, <1>6 DEF Submitting, Withdrawing
    <3>3. status'[e] \notin Terminal
      BY <1>3 DEF Active, Terminal
    <3> QED
      BY <1>1, <1>2, <1>4, <1>5, <2>1, <3>1, <3>2, <3>3 DEF Request, SoleOwner
  <2>2. CASE f # e
    <3>1. Submitting(u, f) /\ u # t /\ op'[u] = op[u]
      BY <1>2, <1>6, <2>2
    <3> QED
      BY <1>1, <1>2, <1>3, <1>6, <2>2, <3>1 DEF LifecycleInv, AdmittedOnce, SoleOwner, Request
  <2> QED
    BY <2>1, <2>2
<1>11. WithdrawnNeverRuns'
  BY <1>1, <1>6 DEF LifecycleInv, WithdrawnNeverRuns
<1>12. HaltHeld'
  BY <1>1, <1>5, <1>6 DEF LifecycleInv, ControlConsistent, TypeOK, HaltHeld, Working
<1> QED
  BY <1>7, <1>8, <1>9, <1>10, <1>11, <1>12 DEF LifecycleInv

\* enqueue() registers a fresh handle: no accepted halt is wiped out with the
\* flags, for nobody could address the run before.
LEMMA RegisterKeepsInv ==
  ASSUME LifecycleInv, Q!TypeOK', Q!QueueInv', NEW t \in Threads, Register(t)
  PROVE  LifecycleInv'
<1> DEFINE e == op[t].id
<1>1. /\ op \in [Threads -> OpRecord]
      /\ e \in Executions /\ status[e] # "ABSENT"
      /\ op[t].step = "register" /\ op[t].kind = "submit"
  <2>1. op \in [Threads -> OpRecord] /\ op[t].step = "register" /\ op[t] # Idle
    BY DEF LifecycleInv, ControlConsistent, TypeOK, OpRecord, Register, Idle
  <2> QED
    BY <2>1, KindOfStep DEF LifecycleInv, RequestsServed, OpRecord, Kinds
<1>2. Submitting(t, e) /\ e \notin handles \cup haltAccepted
  BY <1>1 DEF Submitting, LifecycleInv, AdmittedOnce, SoleOwner
<1>3. /\ UNCHANGED <<queued_ids, started, status, run, haltAccepted, crashes>>
      /\ handles' = handles \cup {e}
      /\ paused' = paused \ {e} /\ stopping' = stopping \ {e}
      /\ cancelRequested' = cancelRequested \ {e}
  BY <1>2 DEF Register, C!GetOrCreate, queueVars, engineVars
<1>4. /\ op' \in [Threads -> OpRecord]
      /\ \A u \in Threads \ {t} : op'[u] = op[u]
      /\ op'[t].kind = "submit" /\ op'[t].id = e /\ op'[t].step = "put"
  BY <1>1 DEF Register, Goto, OpRecord, Steps
<1>5. \A f \in Executions, u \in Threads :
        /\ Withdrawing(u, f)' <=> Withdrawing(u, f)
        /\ Submitting(u, f)' <=> Submitting(u, f)
  BY <1>1, <1>4 DEF Withdrawing, Submitting
<1>6. ControlConsistent'
  BY <1>1, <1>3, <1>4
  DEF LifecycleInv, ControlConsistent, TypeOK, FlagsConsistent, C!FlagsConsistent, OpRecord
<1>7. LiveRunsControllable' /\ TerminalMeansOver' /\ HaltNotLost' /\ RunsStarted'
  BY <1>3
  DEF LifecycleInv, LiveRunsControllable, TerminalMeansOver, HaltNotLost, RunsStarted, Working
<1>8. RequestsServed' /\ AbsentIsNowhere'
  BY <1>1, <1>3, <1>4 DEF LifecycleInv, RequestsServed, AbsentIsNowhere, StepsOf, Idle
<1>9. AdmittedOnce'
  <2> SUFFICES ASSUME NEW f \in Executions, NEW u \in Threads, Submitting(u, f)'
               PROVE  SoleOwner(u, f)'
    BY DEF AdmittedOnce
  <2>1. Submitting(u, f)
    BY <1>5
  <2>2. u # t => f # e
    BY <1>1, <1>2, <2>1 DEF LifecycleInv, AdmittedOnce, SoleOwner
  <2>3. u = t => f = e
    BY <2>1 DEF Submitting
  <2> QED
    BY <1>3, <1>4, <1>5, <2>1, <2>2, <2>3 DEF LifecycleInv, AdmittedOnce, SoleOwner
<1>10. WithdrawnNeverRuns'
  BY <1>3, <1>5 DEF LifecycleInv, WithdrawnNeverRuns
<1>11. HaltHeld'
  BY <1>2, <1>3, <1>5 DEF LifecycleInv, ControlConsistent, TypeOK, HaltHeld, Working
<1> QED
  BY <1>6, <1>7, <1>8, <1>9, <1>10, <1>11 DEF LifecycleInv

\* put() queues a run that has its handle, has no end and was never started.
LEMMA EnqueueKeepsInv ==
  ASSUME LifecycleInv, Q!TypeOK', Q!QueueInv', NEW t \in Threads, NEW p \in Priorities,
         Enqueue(t, p)
  PROVE  LifecycleInv'
<1> DEFINE e == op[t].id
<1>1. /\ op \in [Threads -> OpRecord]
      /\ e \in Executions /\ status[e] # "ABSENT"
      /\ op[t].step = "put" /\ op[t].kind = "submit"
  BY DEF LifecycleInv, ControlConsistent, TypeOK, OpRecord, RequestsServed, Enqueue, Idle
<1>2. /\ Submitting(t, e) /\ e \in handles /\ status[e] \notin Terminal
      /\ \A u \in Threads : ~Withdrawing(u, e) /\ (Submitting(u, e) => u = t)
  BY <1>1 DEF Submitting, LifecycleInv, AdmittedOnce, SoleOwner
<1>3. /\ UNCHANGED <<started, handles, paused, stopping, cancelRequested, status, run,
                     haltAccepted, crashes>>
      /\ queued_ids' = queued_ids \cup {e}
  BY DEF Enqueue, Q!Put, Q!poolVars, controlVars, engineVars
<1>4. /\ op' \in [Threads -> OpRecord]
      /\ \A u \in Threads \ {t} : op'[u] = op[u]
      /\ op'[t].kind = "submit" /\ op'[t].id = e /\ op'[t].step = "mark"
  BY <1>1 DEF Enqueue, Goto, OpRecord, Steps
<1>5. \A f \in Executions, u \in Threads :
        /\ Withdrawing(u, f)' <=> Withdrawing(u, f)
        /\ Submitting(u, f)' <=> Submitting(u, f) /\ u # t
  BY <1>1, <1>4 DEF Withdrawing, Submitting
<1>6. ControlConsistent'
  BY <1>3, <1>4
  DEF LifecycleInv, ControlConsistent, TypeOK, FlagsConsistent, C!FlagsConsistent, OpRecord
<1>7. LiveRunsControllable' /\ TerminalMeansOver' /\ HaltNotLost' /\ RunsStarted'
  BY <1>2, <1>3
  DEF LifecycleInv, LiveRunsControllable, TerminalMeansOver, HaltNotLost, RunsStarted, Working
<1>8. RequestsServed' /\ AbsentIsNowhere'
  BY <1>1, <1>3, <1>4 DEF LifecycleInv, RequestsServed, AbsentIsNowhere, StepsOf, Idle
<1>9. AdmittedOnce'
  <2> SUFFICES ASSUME NEW f \in Executions, NEW u \in Threads, Submitting(u, f)'
               PROVE  SoleOwner(u, f)'
    BY DEF AdmittedOnce
  <2>1. Submitting(u, f) /\ u # t
    BY <1>5
  <2>2. f # e
    BY <1>2, <2>1
  <2> QED
    BY <1>3, <1>4, <1>5, <2>1, <2>2 DEF LifecycleInv, AdmittedOnce, SoleOwner
<1>10. WithdrawnNeverRuns'
  BY <1>2, <1>3, <1>5 DEF LifecycleInv, WithdrawnNeverRuns
<1>11. HaltHeld'
  BY <1>2, <1>3, <1>5 DEF LifecycleInv, ControlConsistent, TypeOK, HaltHeld, Working
<1> QED
  BY <1>6, <1>7, <1>8, <1>9, <1>10, <1>11 DEF LifecycleInv

\* stop() and cancel() take a waiting run out of the queue.
LEMMA WithdrawKeepsInv ==
  ASSUME LifecycleInv, Q!TypeOK', Q!QueueInv', NEW t \in Threads,
         DequeueRequest(t), Q!Cancel(op[t].id)
  PROVE  LifecycleInv'
<1> DEFINE e == op[t].id
<1>1. /\ op \in [Threads -> OpRecord]
      /\ e \in Executions /\ status[e] # "ABSENT"
      /\ op[t].step = "dequeue" /\ op[t].kind \in {"stop", "cancel"}
  <2>1. op \in [Threads -> OpRecord] /\ op[t].step = "dequeue" /\ op[t] # Idle
    BY DEF LifecycleInv, ControlConsistent, TypeOK, OpRecord, DequeueRequest, Idle
  <2> QED
    BY <2>1, KindOfStep DEF LifecycleInv, RequestsServed, OpRecord, Kinds
<1>2. /\ UNCHANGED <<started, handles, paused, stopping, cancelRequested, status, run,
                     haltAccepted, crashes>>
      /\ e \in queued_ids /\ queued_ids' = queued_ids \ {e}
  BY DEF DequeueRequest, Q!Cancel, Q!poolVars, controlVars, engineVars
<1>3. op' = [op EXCEPT ![t].step = IF op[t].kind = "stop" THEN "finish" ELSE "get"]
  BY <1>2 DEF DequeueRequest, Goto
<1>4. /\ op' \in [Threads -> OpRecord]
      /\ \A u \in Threads \ {t} : op'[u] = op[u]
      /\ op'[t].kind = op[t].kind /\ op'[t].id = e
      /\ op'[t].step = IF op[t].kind = "stop" THEN "finish" ELSE "get"
  BY <1>1, <1>3 DEF OpRecord, Steps
<1>5. e \notin started /\ \A u \in Threads : ~Submitting(u, e)
  BY <1>1, <1>2 DEF LifecycleInv, AdmittedOnce, SoleOwner, Q!QueueInv, Q!RunsOnce
<1>6. \A f \in Executions, u \in Threads :
        /\ Submitting(u, f)' <=> Submitting(u, f)
        /\ Withdrawing(u, f)' => Withdrawing(u, f) \/ f = e
  BY <1>1, <1>4 DEF Withdrawing, Submitting
<1>7. ControlConsistent'
  BY <1>2, <1>4
  DEF LifecycleInv, ControlConsistent, TypeOK, FlagsConsistent, C!FlagsConsistent, OpRecord
<1>8. LiveRunsControllable' /\ TerminalMeansOver' /\ HaltNotLost' /\ RunsStarted'
  BY <1>2
  DEF LifecycleInv, LiveRunsControllable, TerminalMeansOver, HaltNotLost, RunsStarted, Working
<1>9. RequestsServed' /\ AbsentIsNowhere'
  BY <1>1, <1>2, <1>4 DEF LifecycleInv, RequestsServed, AbsentIsNowhere, StepsOf, Idle
<1>10. AdmittedOnce'
  <2> SUFFICES ASSUME NEW f \in Executions, NEW u \in Threads, Submitting(u, f)'
               PROVE  SoleOwner(u, f)'
    BY DEF AdmittedOnce
  <2>1. Submitting(u, f) /\ f # e
    BY <1>5, <1>6
  <2>2. u # t
    BY <1>1, <2>1 DEF Submitting
  <2> QED
    BY <1>1, <1>2, <1>4, <1>6, <2>1, <2>2 DEF LifecycleInv, AdmittedOnce, SoleOwner
<1>11. WithdrawnNeverRuns'
  BY <1>2, <1>5, <1>6 DEF LifecycleInv, WithdrawnNeverRuns
<1>12. HaltHeld'
  BY <1>2, <1>6 DEF LifecycleInv, ControlConsistent, TypeOK, HaltHeld, Working
<1> QED
  BY <1>7, <1>8, <1>9, <1>10, <1>11, <1>12 DEF LifecycleInv

\* stop() writes the end of a run it took out of the queue, then releases its
\* handle: nobody works on the run and nobody will.
LEMMA EndWithdrawnKeepsInv ==
  ASSUME LifecycleInv, Q!TypeOK', Q!QueueInv', NEW t \in Threads,
         FinishQueued(t) \/ ReleaseQueued(t)
  PROVE  LifecycleInv'
<1> DEFINE e == op[t].id
<1>1. /\ op \in [Threads -> OpRecord]
      /\ e \in Executions /\ status[e] # "ABSENT" /\ op[t].kind = "stop"
      /\ op[t].step = IF FinishQueued(t) THEN "finish" ELSE "release"
  <2>1. /\ op \in [Threads -> OpRecord] /\ op[t].step \in {"finish", "release"} /\ op[t] # Idle
        /\ op[t].step = IF FinishQueued(t) THEN "finish" ELSE "release"
    BY DEF LifecycleInv, ControlConsistent, TypeOK, OpRecord, FinishQueued, ReleaseQueued, Idle
  <2> QED
    BY <2>1, KindOfStep DEF LifecycleInv, RequestsServed, OpRecord, Kinds
<1>2. /\ UNCHANGED <<queued_ids, started, paused, stopping, cancelRequested, run,
                     haltAccepted, crashes>>
      /\ handles' \subseteq handles /\ handles \subseteq handles' \cup {e}
      /\ \A f \in Executions \ {e} : status'[f] = status[f]
      /\ status'[e] = status[e] \/ status'[e] = "CANCELLED"
      /\ status' \in [Executions -> Active \cup Terminal \cup {"ABSENT"}]
  BY <1>1 DEF FinishQueued, ReleaseQueued, C!Release, queueVars, controlVars, engineVars,
         LifecycleInv, ControlConsistent, TypeOK, Terminal
<1>3. op'[t] = Idle \/ op'[t] = [op[t] EXCEPT !.step = "release"]
  BY <1>1 DEF FinishQueued, ReleaseQueued, Goto, Return
<1>4. /\ op' \in [Threads -> OpRecord]
      /\ \A u \in Threads \ {t} : op'[u] = op[u]
  BY <1>1 DEF FinishQueued, ReleaseQueued, Goto, Return, OpRecord, Steps, Idle
<1>5. Withdrawing(t, e) /\ e \notin queued_ids \cup started
  BY <1>1 DEF Withdrawing, LifecycleInv, WithdrawnNeverRuns
<1>6. ~Working(e) /\ \A u \in Threads : ~Submitting(u, e)
  BY <1>1, <1>5 DEF LifecycleInv, AdmittedOnce, SoleOwner, RunsStarted, Working
<1>7. \A f \in Executions, u \in Threads :
        /\ Submitting(u, f)' <=> Submitting(u, f)
        /\ Withdrawing(u, f)' => Withdrawing(u, f)
  BY <1>1, <1>3, <1>4 DEF Withdrawing, Submitting, Idle, OpRecord
<1>8. ControlConsistent'
  BY <1>2, <1>4
  DEF LifecycleInv, ControlConsistent, TypeOK, FlagsConsistent, C!FlagsConsistent, OpRecord
<1>9. LiveRunsControllable' /\ TerminalMeansOver' /\ HaltNotLost' /\ RunsStarted'
  BY <1>2, <1>5, <1>6
  DEF LifecycleInv, ControlConsistent, TypeOK, LiveRunsControllable, TerminalMeansOver,
      HaltNotLost, RunsStarted, Working
<1>10. RequestsServed' /\ AbsentIsNowhere'
  BY <1>1, <1>2, <1>3, <1>4
  DEF LifecycleInv, RequestsServed, AbsentIsNowhere, StepsOf, OpRecord
<1>11. AdmittedOnce'
  <2> SUFFICES ASSUME NEW f \in Executions, NEW u \in Threads, Submitting(u, f)'
               PROVE  SoleOwner(u, f)'
    BY DEF AdmittedOnce
  <2>1. Submitting(u, f) /\ f # e
    BY <1>6, <1>7
  <2>2. u # t
    BY <1>1, <2>1 DEF Submitting
  <2>3. op'[t].step # "request"
    BY <1>1, <1>3 DEF Idle, OpRecord
  <2> QED
    BY <1>2, <1>4, <1>7, <2>1, <2>2, <2>3 DEF LifecycleInv, AdmittedOnce, SoleOwner
<1>12. WithdrawnNeverRuns'
  BY <1>2, <1>7 DEF LifecycleInv, WithdrawnNeverRuns
<1>13. HaltHeld'
  BY <1>2, <1>7 DEF LifecycleInv, ControlConsistent, TypeOK, HaltHeld, Working
<1> QED
  BY <1>8, <1>9, <1>10, <1>11, <1>12, <1>13 DEF LifecycleInv

\* The record of a run that was not started, or only just, is well typed.
LEMMA NotRunTyped ==
  /\ NotRun \in RunRecord
  /\ \A where \in Places : [NotRun EXCEPT !.pc = where] \in RunRecord
<1>1. 0 \in 0..MaxNodes
  BY LifecycleAssumption
<1>2. NotRun \in RunRecord
  BY <1>1 DEF NotRun, RunRecord, Places
<1> QED
  BY <1>2 DEF RunRecord

\* A worker takes a run from the queue: its handle is there, so the flags set
\* while it waited are kept.
LEMMA TakeKeepsInv ==
  ASSUME LifecycleInv, Q!TypeOK', Q!QueueInv', NEW w \in Workers, NEW x \in heap, Take(w, x)
  PROVE  LifecycleInv'
<1> DEFINE e == x.execution_id
<1> USE LifecycleAssumption
<1>1. e \in Executions /\ e \in queued_ids
  BY DEF LifecycleInv, ControlConsistent, TypeOK, Q!TypeOK, Q!QueuedExecution, Q!QueueInv,
         Q!HeapConsistent
<1>2. /\ e \in handles /\ e \notin started /\ status[e] \notin Terminal /\ status[e] # "ABSENT"
      /\ e \in haltAccepted => e \in stopping
      /\ \A u \in Threads : ~Submitting(u, e) /\ ~Withdrawing(u, e)
  BY <1>1 DEF LifecycleInv, LiveRunsControllable, Q!QueueInv, Q!RunsOnce, TerminalMeansOver,
         HaltHeld, AdmittedOnce, SoleOwner, WithdrawnNeverRuns, AbsentIsNowhere
<1>3. /\ UNCHANGED <<handles, paused, stopping, cancelRequested, status, op, haltAccepted, crashes>>
      /\ queued_ids' = queued_ids \ {e} /\ started' = started \cup {e}
  <2>1. Q!Discarded(x) = {}
    BY DEF Take, Q!Dequeue, LifecycleInv, Q!QueueInv
  <2> QED
    BY <1>2, <2>1 DEF Take, Q!Dequeue, C!GetOrCreate, C!controlVars
<1>4. /\ run \in [Executions -> RunRecord] /\ run' \in [Executions -> RunRecord]
      /\ \A f \in Executions \ {e} : run'[f] = run[f]
      /\ run'[e].pc = "load" /\ run'[e].outcome = None
  <2>1. [NotRun EXCEPT !.pc = "load"] \in RunRecord
    BY NotRunTyped DEF Places
  <2> QED
    BY <1>1, <2>1 DEF Take, LifecycleInv, ControlConsistent, TypeOK, RunRecord, NotRun
<1>5. \A f \in Executions : Working(f)' <=> Working(f) \/ f = e
  BY <1>4 DEF Working
<1>6. ControlConsistent'
  BY <1>3, <1>4
  DEF LifecycleInv, ControlConsistent, TypeOK, FlagsConsistent, C!FlagsConsistent, RunRecord
<1>7. LiveRunsControllable' /\ TerminalMeansOver'
  BY <1>2, <1>3, <1>5 DEF LifecycleInv, LiveRunsControllable, TerminalMeansOver
<1>8. HaltNotLost' /\ HaltHeld'
  BY <1>2, <1>3, <1>4, <1>5
  DEF LifecycleInv, ControlConsistent, TypeOK, HaltNotLost, HaltHeld, Submitting
<1>9. RequestsServed' /\ AbsentIsNowhere' /\ WithdrawnNeverRuns'
  BY <1>2, <1>3
  DEF LifecycleInv, RequestsServed, AbsentIsNowhere, WithdrawnNeverRuns, Withdrawing
<1>10. AdmittedOnce'
  BY <1>2, <1>3 DEF LifecycleInv, AdmittedOnce, SoleOwner, Submitting, Withdrawing
<1>11. RunsStarted'
  BY <1>3, <1>4 DEF LifecycleInv, RunsStarted
<1> QED
  BY <1>6, <1>7, <1>8, <1>9, <1>10, <1>11 DEF LifecycleInv

\* After a crash no run is queued, held or worked on; the rows stay.
LEMMA CrashKeepsInv ==
  ASSUME LifecycleInv, Q!TypeOK', Q!QueueInv', Crash
  PROVE  LifecycleInv'
<1> USE LifecycleAssumption
<1>1. \A f \in Executions : run'[f].pc \in {"idle", "ended"} /\ run'[f].outcome = None
                            /\ (run'[f].pc = "idle" <=> run[f].pc = "idle")
  BY DEF Crash, NotRun
<1>2. run' \in [Executions -> RunRecord]
  <2>1. NotRun \in RunRecord /\ [NotRun EXCEPT !.pc = "ended"] \in RunRecord
    BY NotRunTyped DEF Places
  <2> QED
    BY <2>1 DEF Crash
<1>3. ControlConsistent'
  <2>1. op' \in [Threads -> OpRecord]
    BY DEF Crash, OpRecord, Idle, Steps
  <2>2. crashes' \in 0..MaxCrashes
    BY DEF Crash, LifecycleInv, ControlConsistent, TypeOK
  <2>3. UNCHANGED <<status, haltAccepted>>
        /\ handles' = {} /\ paused' = {} /\ stopping' = {} /\ cancelRequested' = {}
    BY DEF Crash
  <2> QED
    BY <1>2, <2>1, <2>2, <2>3
    DEF LifecycleInv, ControlConsistent, TypeOK, FlagsConsistent, C!FlagsConsistent,
        RunRecord, OpRecord
<1>4. \A f \in Executions : ~Working(f)'
  BY <1>1 DEF Working
<1>5. LiveRunsControllable' /\ TerminalMeansOver' /\ HaltNotLost'
  BY <1>1, <1>4
  DEF Crash, LiveRunsControllable, TerminalMeansOver, HaltNotLost, LifecycleInv,
      ControlConsistent, TypeOK
<1>6. \A f \in Executions, u \in Threads : ~Submitting(u, f)' /\ ~Withdrawing(u, f)'
  BY DEF Crash, Submitting, Withdrawing, Idle
<1>7. RequestsServed' /\ AbsentIsNowhere'
  BY DEF Crash, LifecycleInv, RequestsServed, AbsentIsNowhere
<1>8. AdmittedOnce' /\ WithdrawnNeverRuns'
  BY <1>6 DEF AdmittedOnce, SoleOwner, WithdrawnNeverRuns
<1>9. RunsStarted'
  BY <1>1 DEF Crash, LifecycleInv, RunsStarted
<1>10. HaltHeld'
  BY <1>4, <1>6 DEF Crash, HaltHeld, LifecycleInv, ControlConsistent, TypeOK
<1> QED
  BY <1>3, <1>5, <1>7, <1>8, <1>9, <1>10 DEF LifecycleInv

-----------------------------------------------------------------------------

\* The invariant holds before the first request.
LEMMA InvInitially == Init => LifecycleInv
<1> SUFFICES ASSUME Init PROVE LifecycleInv
  OBVIOUS
<1> USE LifecycleAssumption
<1>1. ControlConsistent
  <2>1. Q!TypeOK
    BY DEF Init, Q!Init, Q!TypeOK
  <2> QED
    BY <2>1 DEF Init, C!Init, ControlConsistent, TypeOK, FlagsConsistent, C!FlagsConsistent,
                NotRun, Idle, Places, Steps
<1>2. Q!QueueInv
  <2>1. Q!IsFiniteSet({}) /\ Q!Cardinality({}) = 0
    BY FS_EmptySet DEF Q!IsFiniteSet, IsFiniteSet, Q!Cardinality, Cardinality
  <2>2. Q!AdmissionBound
    BY <2>1 DEF Init, Q!Init, Q!AdmissionBound, Q!Maximum
  <2> QED
    BY <2>1, <2>2 DEF Init, Q!Init, Q!QueueInv, Q!HeapConsistent, Q!RunsOnce, Q!SlotsMatch,
                      Q!NoLostWakeup
<1>3. LiveRunsControllable /\ HaltNotLost /\ TerminalMeansOver /\ RunsStarted /\ HaltHeld
  BY DEF Init, Q!Init, C!Init, LiveRunsControllable, HaltNotLost, TerminalMeansOver, RunsStarted,
         HaltHeld, Working, NotRun, Terminal
<1>4. RequestsServed /\ AbsentIsNowhere /\ AdmittedOnce /\ WithdrawnNeverRuns
  BY DEF Init, Q!Init, C!Init, RequestsServed, AbsentIsNowhere, AdmittedOnce, SoleOwner,
         WithdrawnNeverRuns, Submitting, Withdrawing, Idle
<1> QED
  BY <1>1, <1>2, <1>3, <1>4 DEF LifecycleInv

\* The invariant is inductive: requests of any number of threads, workers,
\* schedulers and crashes, in any order, keep it.
LEMMA InvInductive == LifecycleInv /\ [Next]_vars => LifecycleInv'
<1> SUFFICES ASSUME LifecycleInv, [Next]_vars PROVE LifecycleInv'
  OBVIOUS
<1>q. Q!TypeOK' /\ Q!QueueInv'
  BY QueueKept
<1>1. ASSUME NEW t \in Threads, ThreadStep(t) PROVE LifecycleInv'
  <2>1. CASE Register(t)
    BY <1>q, <2>1, RegisterKeepsInv
  <2>2. ASSUME NEW p \in Priorities, Enqueue(t, p) PROVE LifecycleInv'
    BY <1>q, <2>2, EnqueueKeepsInv
  <2>3. CASE Signal(t)
    <3>1. UNCHANGED <<queued_ids, started, controlVars, status, op, engineVars, crashes>>
      BY <2>3 DEF Signal, Q!PutSignal, Q!queueVars, Q!poolVars
    <3> QED
      BY <1>q, <3>1, UnrelatedKeepsInv
  <2>4. CASE DequeueRequest(t)
    <3>1. Q!Cancel(op[t].id) \/ UNCHANGED queueVars
      BY <2>4 DEF DequeueRequest
    <3> QED
      BY <1>q, <2>4, <3>1, WithdrawKeepsInv, PlainRequestKeepsInv
  <2>5. CASE FinishQueued(t) \/ ReleaseQueued(t)
    BY <1>q, <2>5, EndWithdrawnKeepsInv
  <2>6. CASE AcceptRequest(t)
    BY <1>q, <2>6, AcceptKeepsInv
  <2>7. CASE EnqueueFull(t) \/ MarkQueued(t) \/ GetHandle(t) \/ RefuseRequest(t)
             \/ WriteRequested(t)
    BY <1>q, <2>7, PlainRequestKeepsInv
  <2> QED
    BY <1>1, <2>1, <2>2, <2>3, <2>4, <2>5, <2>6, <2>7 DEF ThreadStep
<1>2. ASSUME NEW t \in Threads, NewRequest(t) PROVE LifecycleInv'
  <2>1. ASSUME NEW e \in Executions, Submit(t, e) PROVE LifecycleInv'
    BY <1>q, <2>1, SubmitKeepsInv
  <2>2. ASSUME NEW e \in Executions,
               BeginCancel(t, e)
                 \/ \E kind \in {"pause", "resume", "stop"} : BeginControl(t, kind, e)
        PROVE  LifecycleInv'
    BY <1>q, <2>2, PlainRequestKeepsInv
  <2> QED
    BY <1>2, <2>1, <2>2 DEF NewRequest
<1>3. ASSUME NEW e \in Executions, RunStep(e) \/ WaitTimesOut(e) PROVE LifecycleInv'
  <2>1. CASE LoadFails(e) \/ ReleaseHandle(e)
    BY <1>q, <2>1, EndKeepsInv
  <2>2. CASE Finalise(e)
    BY <1>q, <2>2, FinaliseKeepsInv
  <2> QED
    BY <1>q, <1>3, <2>1, <2>2, LoopKeepsInv DEF RunStep
<1>4. ASSUME NEW w \in Workers, WorkerStep(w) PROVE LifecycleInv'
  <2>1. ASSUME NEW x \in heap, Take(w, x) PROVE LifecycleInv'
    BY <1>q, <2>1, TakeKeepsInv
  <2>2. CASE WorkerWaits(w) \/ WorkerFree(w)
    <3>1. UNCHANGED <<queued_ids, started, controlVars, status, op, engineVars, crashes>>
      BY <2>2 DEF WorkerWaits, WorkerFree, Q!WaitForEntry, Q!Wake, Q!GetTimeout, Q!HandlerEnds,
                  Q!queueVars, LifecycleInv, Q!QueueInv
    <3> QED
      BY <1>q, <3>1, UnrelatedKeepsInv
  <2> QED
    BY <1>4, <2>1, <2>2 DEF WorkerStep
<1>5. CASE Crash
  BY <1>q, <1>5, CrashKeepsInv
<1>6. CASE UNCHANGED vars
  BY <1>q, <1>6, UnrelatedKeepsInv DEF vars, controlVars, engineVars
<1> QED
  BY <1>1, <1>2, <1>3, <1>4, <1>5, <1>6 DEF Next

\* Runs that compete for the queue, the workers and the registry are kept
\* apart in every behaviour, crashes included.
THEOREM LifecycleSafety == Spec => []LifecycleInv
BY InvInitially, InvInductive, PTL DEF Spec

\* No request, in whatever order threads send them, leaves a run both paused
\* and halting, and every variable keeps its type.
THEOREM ControlSound == Spec => []ControlConsistent
<1>1. LifecycleInv => ControlConsistent
  BY DEF LifecycleInv
<1> QED
  BY <1>1, LifecycleSafety, PTL

\* No stop, cancel or pause of a live run is silently ignored for want of its
\* handle.
THEOREM LiveRunsHeld == Spec => []LiveRunsControllable
<1>1. LifecycleInv => LiveRunsControllable
  BY DEF LifecycleInv
<1> QED
  BY <1>1, LifecycleSafety, PTL

\* A run whose stop or cancel was accepted in time never ends COMPLETED.
THEOREM HaltsHonoured == Spec => []HaltNotLost
<1>1. LifecycleInv => HaltNotLost
  BY DEF LifecycleInv
<1> QED
  BY <1>1, LifecycleSafety, PTL

\* A terminal row is never shown for a run still queued or worked on.
THEOREM EndsAreReal == Spec => []TerminalMeansOver
<1>1. LifecycleInv => TerminalMeansOver
  BY DEF LifecycleInv
<1> QED
  BY <1>1, LifecycleSafety, PTL

=============================================================================
