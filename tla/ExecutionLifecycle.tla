------------------------- MODULE ExecutionLifecycle -------------------------
(***************************************************************************)
(* The life of an execution, from the request that creates it to its       *)
(* terminal status row: the API handlers (execution_router.py,             *)
(* workflow_router.py), the engine's admission and control operations and  *)
(* the control flow of run_execution_v2 (engine.py), composed with the     *)
(* queue (ExecutionQueue) and the control flags (ControlRegistry).         *)
(*                                                                         *)
(* The handlers are sync functions that FastAPI runs in threads, beside    *)
(* the event loop: each reads the row, takes the handle, sets a flag and   *)
(* writes the row in separate steps.  Every row write is one transaction   *)
(* under the engine's write lock.  The nodes of a run are abstracted to a  *)
(* number left to start and at most one in flight; the module Scheduler    *)
(* models them.                                                            *)
(***************************************************************************)
EXTENDS Integers, FiniteSets

CONSTANTS
  Executions, Priorities, EXECUTION_QUEUE_MAX_SIZE, Workers, Threads,
  MaxSequence, None,   \* as in ExecutionQueue
  MaxNodes,            \* bound: nodes of a workflow
  MaxCrashes           \* bound: process crashes

ASSUME LifecycleAssumption ==
  /\ Priorities \subseteq Int
  /\ EXECUTION_QUEUE_MAX_SIZE \in Int
  /\ MaxSequence \in Nat
  /\ IsFiniteSet(Workers)
  /\ None \notin Executions \cup {"COMPLETED", "FAILED", "CANCELLED"}
  /\ MaxNodes \in Nat
  /\ MaxCrashes \in Nat

VARIABLES
  heap, queued_ids, cancelled, counter, not_empty, signal,
  pc, item, active, finished, cancelling, pool, started,  \* ExecutionQueue
  handles, paused, stopping, cancelRequested,             \* ControlRegistry
  status,        \* the status column of the execution's row
  op,            \* the request each API thread serves
  run,           \* run_execution_v2, for each execution
  haltAccepted,  \* history: halts accepted before the engine chose an outcome
  crashes        \* process crashes so far

Q == INSTANCE ExecutionQueue
C == INSTANCE ControlRegistry WITH cancelling <- cancelRequested

queueVars == <<heap, queued_ids, cancelled, counter, not_empty, signal,
               pc, item, active, finished, cancelling, pool, started>>
controlVars == <<handles, paused, stopping, cancelRequested>>
engineVars == <<run, haltAccepted>>
vars == <<heap, queued_ids, cancelled, counter, not_empty, signal,
          pc, item, active, finished, cancelling, pool, started,
          handles, paused, stopping, cancelRequested,
          status, op, run, haltAccepted, crashes>>

Terminal == {"COMPLETED", "FAILED", "CANCELLED"}
Active == {"PENDING", "QUEUED", "RUNNING", "PAUSED", "PAUSING", "STOPPING"}

Idle == [kind |-> "idle", id |-> None, step |-> "none"]
Request(kind, e, step) == [kind |-> kind, id |-> e, step |-> step]
Goto(t, step) == op' = [op EXCEPT ![t].step = step]
Return(t) == op' = [op EXCEPT ![t] = Idle]

\* run.pc is "idle" before a worker takes the execution and "ended" after
\* run_execution_v2 returned.
NotRun == [pc |-> "idle", left |-> 0, busy |-> FALSE, failed |-> FALSE,
           stopped |-> FALSE, outcome |-> None]
RunGoto(e, where) == run' = [run EXCEPT ![e].pc = where]

\* An outcome not yet chosen, for the history variable.
Undecided(e) == run[e].outcome = None

-----------------------------------------------------------------------------
(* Admission: create_execution(), replay and resume-failed. *)

\* The row is inserted as PENDING.
Submit(t, e) ==
  /\ op[t] = Idle
  /\ status[e] = "ABSENT"
  /\ status' = [status EXCEPT ![e] = "PENDING"]
  /\ op' = [op EXCEPT ![t] = Request("submit", e, "register")]
  /\ UNCHANGED <<queueVars, controlVars, engineVars, crashes>>

\* Mistake: the handle is left for run_execution_v2 to create.
RegisterLater(t) ==
  /\ op[t].step = "register"
  /\ Goto(t, "put")
  /\ UNCHANGED <<queueVars, controlVars, status, engineVars, crashes>>

\* enqueue() registers a handle first.
Register(t) ==
  /\ op[t].step = "register"
  /\ C!GetOrCreate(op[t].id)
  /\ Goto(t, "put")
  /\ UNCHANGED <<queueVars, status, engineVars, crashes>>

\* enqueue() calls put().
Enqueue(t, p) ==
  /\ op[t].kind = "submit" /\ op[t].step = "put"
  /\ Q!Put(t, op[t].id, p)
  /\ Goto(t, "mark")
  /\ UNCHANGED <<controlVars, status, engineVars, crashes>>

\* QueueFullError leaves enqueue(): HTTP 429.
EnqueueFull(t) ==
  /\ op[t].kind = "submit" /\ op[t].step = "put"
  /\ Q!PutFull(t, op[t].id)
  /\ Return(t)
  /\ UNCHANGED <<controlVars, status, engineVars, crashes>>

\* put() wakes the workers before it returns.
Signal(t) ==
  /\ Q!PutSignal(t)
  /\ UNCHANGED <<controlVars, status, op, engineVars, crashes>>

\* _mark_queued(): a worker, or a stop, may have been faster.
MarkQueued(t) ==
  /\ op[t].kind = "submit" /\ op[t].step = "mark"
  /\ t \notin signal
  /\ status' = IF status[op[t].id] \in Terminal THEN status
               ELSE [status EXCEPT ![op[t].id] = "QUEUED"]
  /\ Return(t)
  /\ UNCHANGED <<queueVars, controlVars, engineVars, crashes>>

-----------------------------------------------------------------------------
(* Control requests. *)

\* pause, resume and stop read the row first and refuse a finished run (409).
BeginControl(t, kind, e) ==
  /\ op[t] = Idle
  /\ status[e] \in Active
  /\ op' = [op EXCEPT ![t] = Request(kind, e, IF kind = "stop" THEN "dequeue" ELSE "get")]
  /\ UNCHANGED <<queueVars, controlVars, status, engineVars, crashes>>

\* cancel reads the row only to know that it exists.
BeginCancel(t, e) ==
  /\ op[t] = Idle
  /\ status[e] # "ABSENT"
  /\ op' = [op EXCEPT ![t] = Request("cancel", e, "dequeue")]
  /\ UNCHANGED <<queueVars, controlVars, status, engineVars, crashes>>

\* Mistake: the result of queue.cancel() is ignored.
DequeueUnchecked(t) ==
  /\ op[t].step = "dequeue"
  /\ Q!Cancel(op[t].id) \/ (op[t].id \notin queued_ids /\ UNCHANGED queueVars)
  /\ Goto(t, IF op[t].kind = "stop" THEN "finish" ELSE "get")
  /\ UNCHANGED <<controlVars, status, engineVars, crashes>>

\* stop() and cancel() try to take the run out of the queue.
DequeueRequest(t) ==
  /\ op[t].step = "dequeue"
  /\ LET e == op[t].id IN
     \/ /\ Q!Cancel(e)
        /\ Goto(t, IF op[t].kind = "stop" THEN "finish" ELSE "get")
     \/ /\ e \notin queued_ids
        /\ Goto(t, "get")
        /\ UNCHANGED queueVars
  /\ UNCHANGED <<controlVars, status, engineVars, crashes>>

\* stop() of a run that never started writes its end and drops its handle.
FinishQueued(t) ==
  /\ op[t].step = "finish"
  /\ status' = [status EXCEPT ![op[t].id] = "CANCELLED"]
  /\ Goto(t, "release")
  /\ UNCHANGED <<queueVars, controlVars, engineVars, crashes>>

ReleaseQueued(t) ==
  /\ op[t].step = "release"
  /\ C!Release(op[t].id)
  /\ Return(t)
  /\ UNCHANGED <<queueVars, status, engineVars, crashes>>

\* control_registry.get(): without a handle the request changes nothing.
GetHandle(t) ==
  /\ op[t].step = "get"
  /\ IF op[t].id \in handles THEN Goto(t, "request") ELSE Return(t)
  /\ UNCHANGED <<queueVars, controlVars, status, engineVars, crashes>>

\* The handle accepts the request.  cancel() then looks in active_tasks, where
\* runs of the pool are not, and returns.
AcceptRequest(t) ==
  /\ op[t].step = "request"
  /\ C!Accept(op[t].kind, op[t].id)
  /\ haltAccepted' = IF op[t].kind \in {"stop", "cancel"} /\ Undecided(op[t].id)
                     THEN haltAccepted \cup {op[t].id} ELSE haltAccepted
  /\ IF op[t].kind = "cancel" THEN Return(t) ELSE Goto(t, "write")
  /\ UNCHANGED <<queueVars, status, run, crashes>>

RefuseRequest(t) ==
  /\ op[t].step = "request"
  /\ C!Refuses(op[t].kind, op[t].id)
  /\ Return(t)
  /\ UNCHANGED <<queueVars, controlVars, status, engineVars, crashes>>

\* pause(), resume() and stop() write the row last, whatever it says by then.
WriteRequested(t) ==
  /\ op[t].step = "write"
  /\ status' = [status EXCEPT ![op[t].id] =
                  CASE op[t].kind = "pause" -> "PAUSING"
                    [] op[t].kind = "resume" -> "RUNNING"
                    [] op[t].kind = "stop" -> "STOPPING"]
  /\ Return(t)
  /\ UNCHANGED <<queueVars, controlVars, engineVars, crashes>>

-----------------------------------------------------------------------------
(* The worker and run_execution_v2. *)

\* A worker takes x from the queue and enters run_execution_v2, which registers
\* a handle if enqueue() did not.
Take(w, x) ==
  /\ Q!Dequeue(w, x)
  /\ C!GetOrCreate(x.execution_id)
  /\ run' = [run EXCEPT ![x.execution_id] = [NotRun EXCEPT !.pc = "load"]]
  /\ UNCHANGED <<status, op, haltAccepted, crashes>>

WorkerWaits(w) ==
  /\ Q!WaitForEntry(w) \/ Q!Wake(w) \/ Q!GetTimeout(w)
  /\ UNCHANGED <<controlVars, status, op, engineVars, crashes>>

\* The plan is loaded and its graph is valid: n nodes to run.
LoadPlan(e, n) ==
  /\ run[e].pc = "load"
  /\ run' = [run EXCEPT ![e].pc = "start", ![e].left = n]
  /\ UNCHANGED <<queueVars, controlVars, status, op, haltAccepted, crashes>>

\* The graph is invalid (it may have been edited while the run was queued).
RejectPlan(e) ==
  /\ run[e].pc = "load"
  /\ run' = [run EXCEPT ![e].pc = "finalise", ![e].outcome = "FAILED"]
  /\ UNCHANGED <<queueVars, controlVars, status, op, haltAccepted, crashes>>

\* Loading raises: the handle is released and the row stays as it is.
LoadFails(e) ==
  /\ run[e].pc = "load"
  /\ RunGoto(e, "ended")
  /\ C!Release(e)
  /\ UNCHANGED <<queueVars, status, op, haltAccepted, crashes>>

WriteRunning(e) ==
  /\ run[e].pc \in {"start", "unpark"}
  /\ status' = [status EXCEPT ![e] = "RUNNING"]
  /\ RunGoto(e, "loop")
  /\ UNCHANGED <<queueVars, controlVars, op, haltAccepted, crashes>>

\* Top of the scheduler's loop: park when paused and nothing is in flight.
CheckPause(e) ==
  /\ run[e].pc = "loop"
  /\ RunGoto(e, IF e \in paused /\ ~run[e].busy THEN "park" ELSE "halt")
  /\ UNCHANGED <<queueVars, controlVars, status, op, haltAccepted, crashes>>

WritePaused(e) ==
  /\ run[e].pc = "park"
  /\ status' = [status EXCEPT ![e] = "PAUSED"]
  /\ RunGoto(e, "parked")
  /\ UNCHANGED <<queueVars, controlVars, op, haltAccepted, crashes>>

\* wait_if_paused() returns; RUNNING is written back unless the run halts.
Unpark(e) ==
  /\ run[e].pc = "parked"
  /\ e \notin paused
  /\ RunGoto(e, IF C!ShouldHalt(e) THEN "loop" ELSE "unpark")
  /\ UNCHANGED <<queueVars, controlVars, status, op, haltAccepted, crashes>>

\* is_cancelled: unwind at once.  is_stopping: schedule nothing more.
CheckHalt(e) ==
  /\ run[e].pc = "halt"
  /\ IF e \in cancelRequested
     THEN run' = [run EXCEPT ![e].pc = "finalise", ![e].busy = FALSE,
                             ![e].outcome = "CANCELLED"]
     ELSE run' = [run EXCEPT ![e].stopped = @ \/ e \in stopping,
                             ![e].pc = IF run[e].left = 0 /\ ~run[e].busy
                                       THEN "decide" ELSE "dispatch"]
  /\ UNCHANGED <<queueVars, controlVars, status, op, haltAccepted, crashes>>

\* Mistake: the loop waits although nothing is in flight.
DispatchWaits(e) ==
  /\ run[e].pc = "dispatch"
  /\ LET schedule == ~run[e].stopped /\ e \notin paused /\ run[e].left > 0 /\ ~run[e].busy
     IN  run' = [run EXCEPT ![e].pc = "wait", ![e].busy = @ \/ schedule,
                            ![e].left = IF schedule THEN @ - 1 ELSE @]
  /\ UNCHANGED <<queueVars, controlVars, status, op, haltAccepted, crashes>>

\* Start a ready node, if stop and pause (read a second time) allow.  With
\* nothing in flight the loop ends; nodes left are then marked SKIPPED.
Dispatch(e) ==
  /\ run[e].pc = "dispatch"
  /\ LET schedule == ~run[e].stopped /\ e \notin paused /\ run[e].left > 0 /\ ~run[e].busy
     IN  run' = [run EXCEPT ![e].pc = IF schedule \/ run[e].busy THEN "wait" ELSE "decide",
                            ![e].left = IF schedule THEN @ - 1
                                        ELSE IF run[e].busy \/ run[e].stopped THEN @ ELSE 0,
                            ![e].busy = @ \/ schedule]
  /\ UNCHANGED <<queueVars, controlVars, status, op, haltAccepted, crashes>>

\* asyncio.wait(): a node ends well, a node fails the run, or a second passes.
NodeEnds(e) ==
  /\ run[e].pc = "wait"
  /\ run[e].busy
  /\ \/ run' = [run EXCEPT ![e].pc = "loop", ![e].busy = FALSE]
     \/ run' = [run EXCEPT ![e].pc = "decide", ![e].busy = FALSE, ![e].failed = TRUE]
  /\ UNCHANGED <<queueVars, controlVars, status, op, haltAccepted, crashes>>

WaitTimesOut(e) ==
  /\ run[e].pc = "wait"
  /\ RunGoto(e, "loop")
  /\ UNCHANGED <<queueVars, controlVars, status, op, haltAccepted, crashes>>

\* Mistake: the stop flag is not read again when the outcome is chosen.
DecideStale(e) ==
  /\ run[e].pc = "decide"
  /\ run' = [run EXCEPT ![e].pc = "finalise",
                        ![e].outcome = IF run[e].failed THEN "FAILED"
                                       ELSE IF run[e].stopped THEN "CANCELLED"
                                       ELSE "COMPLETED"]
  /\ UNCHANGED <<queueVars, controlVars, status, op, haltAccepted, crashes>>

\* The outcome, after the loop.
Decide(e) ==
  /\ run[e].pc = "decide"
  /\ run' = [run EXCEPT ![e].pc = "finalise",
                        ![e].outcome = IF run[e].failed THEN "FAILED"
                                       ELSE IF run[e].stopped \/ e \in stopping
                                       THEN "CANCELLED" ELSE "COMPLETED"]
  /\ UNCHANGED <<queueVars, controlVars, status, op, haltAccepted, crashes>>

\* _finalise_execution(), one transaction.
Finalise(e) ==
  /\ run[e].pc = "finalise"
  /\ status' = [status EXCEPT ![e] = run[e].outcome]
  /\ RunGoto(e, "release")
  /\ UNCHANGED <<queueVars, controlVars, op, haltAccepted, crashes>>

ReleaseHandle(e) ==
  /\ run[e].pc = "release"
  /\ C!Release(e)
  /\ RunGoto(e, "ended")
  /\ UNCHANGED <<queueVars, status, op, haltAccepted, crashes>>

\* The handler returns to the worker.
WorkerFree(w) ==
  /\ pc[w] = "handler"
  /\ run[item[w]].pc = "ended"
  /\ Q!HandlerEnds(w)
  /\ UNCHANGED <<controlVars, status, op, engineVars, crashes>>

\* The process dies and is started again: only rows survive, and the lifespan
\* starts an empty queue; nothing re-claims the runs of the old process.
Crash ==
  /\ crashes < MaxCrashes
  /\ crashes' = crashes + 1
  /\ heap' = {} /\ queued_ids' = {} /\ cancelled' = {} /\ counter' = 0
  /\ not_empty' = "absent" /\ signal' = {}
  /\ pc' = [w \in Workers |-> "get"] /\ item' = [w \in Workers |-> None]
  /\ active' = {} /\ finished' = 0 /\ cancelling' = {} /\ pool' = "running"
  /\ handles' = {} /\ paused' = {} /\ stopping' = {} /\ cancelRequested' = {}
  /\ op' = [t \in Threads |-> Idle]
  /\ run' = [e \in Executions |-> IF run[e].pc = "idle" THEN NotRun
                                  ELSE [NotRun EXCEPT !.pc = "ended"]]
  /\ UNCHANGED <<status, started, haltAccepted>>

-----------------------------------------------------------------------------

Init ==
  /\ Q!Init
  /\ C!Init
  /\ status = [e \in Executions |-> "ABSENT"]
  /\ op = [t \in Threads |-> Idle]
  /\ run = [e \in Executions |-> NotRun]
  /\ haltAccepted = {}
  /\ crashes = 0

ThreadStep(t) ==
  \/ Register(t)
  \/ \E p \in Priorities : Enqueue(t, p)
  \/ EnqueueFull(t) \/ Signal(t) \/ MarkQueued(t)
  \/ DequeueRequest(t) \/ FinishQueued(t) \/ ReleaseQueued(t)
  \/ GetHandle(t) \/ AcceptRequest(t) \/ RefuseRequest(t) \/ WriteRequested(t)

NewRequest(t) ==
  \E e \in Executions :
    \/ Submit(t, e)
    \/ BeginCancel(t, e)
    \/ \E kind \in {"pause", "resume", "stop"} : BeginControl(t, kind, e)

RunStep(e) ==
  \/ \E n \in 0..MaxNodes : LoadPlan(e, n)
  \/ RejectPlan(e) \/ LoadFails(e) \/ WriteRunning(e)
  \/ CheckPause(e) \/ WritePaused(e) \/ Unpark(e) \/ CheckHalt(e)
  \/ Dispatch(e) \/ NodeEnds(e) \/ Decide(e) \/ Finalise(e) \/ ReleaseHandle(e)

WorkerStep(w) ==
  \/ \E x \in heap : Take(w, x)
  \/ WorkerWaits(w)
  \/ WorkerFree(w)

Next ==
  \/ \E t \in Threads : ThreadStep(t) \/ NewRequest(t)
  \/ \E e \in Executions : RunStep(e) \/ WaitTimesOut(e)
  \/ \E w \in Workers : WorkerStep(w)
  \/ Crash

Spec == Init /\ [][Next]_vars

\* Threads finish the request they serve, the loop runs its coroutines, and
\* nodes end, each attempt having a timeout, although the loop comes back to
\* its top every second meanwhile.
FairSpec ==
  /\ Spec
  /\ \A t \in Threads : WF_vars(ThreadStep(t))
  /\ \A e \in Executions : WF_vars(RunStep(e)) /\ SF_vars(NodeEnds(e))
  /\ \A w \in Workers : WF_vars(WorkerStep(w))

-----------------------------------------------------------------------------
(* What the composition promises. *)

Places == {"idle", "load", "start", "loop", "park", "parked", "unpark", "halt",
           "dispatch", "wait", "decide", "finalise", "release", "ended"}
Steps == {"none", "register", "put", "mark", "dequeue", "finish", "release", "get", "request",
          "write"}

TypeOK ==
  /\ Q!TypeOK
  /\ handles \subseteq Executions
  /\ paused \subseteq Executions
  /\ stopping \subseteq Executions
  /\ cancelRequested \subseteq Executions
  /\ status \in [Executions -> Active \cup Terminal \cup {"ABSENT"}]
  /\ op \in [Threads -> [kind : {"idle", "submit", "pause", "resume", "stop", "cancel"},
                         id : Executions \cup {None}, step : Steps]]
  /\ run \in [Executions -> [pc : Places, left : 0..MaxNodes, busy : BOOLEAN,
                             failed : BOOLEAN, stopped : BOOLEAN,
                             outcome : Terminal \cup {None}]]
  /\ haltAccepted \subseteq Executions
  /\ crashes \in 0..MaxCrashes

\* The engine is working on e, before its terminal row is written.
Working(e) == run[e].pc \notin {"idle", "release", "ended"}

\* No request, in whatever order the threads send them, leaves a run both
\* paused and halting: a parked run can always unwind.
FlagsConsistent == C!FlagsConsistent
ControlConsistent == TypeOK /\ FlagsConsistent

\* A run that waits in the queue or is being worked on has its handle in the
\* registry: no stop, cancel or pause of a live run is silently ignored.
LiveRunsControllable ==
  \A e \in Executions : e \in queued_ids \/ Working(e) => e \in handles

\* A stop or cancel accepted before the engine chose the outcome is honoured:
\* the run does not end COMPLETED, even if its last node finished meanwhile.
HaltNotLost ==
  \A e \in haltAccepted : run[e].outcome # "COMPLETED"

\* A terminal row is never shown for a run that is still queued or worked on.
TerminalMeansOver ==
  \A e \in Executions : status[e] \in Terminal => e \notin queued_ids /\ ~Working(e)

-----------------------------------------------------------------------------
(* The inductive invariant: what keeps these promises step by step. *)

\* The request of t will put e into the queue, or took e out of it and will
\* write its end.
Submitting(t, e) ==
  op[t].kind = "submit" /\ op[t].id = e /\ op[t].step \in {"register", "put"}
Withdrawing(t, e) == op[t].id = e /\ op[t].step \in {"finish", "release"}

StepsOf ==
  [idle |-> {"none"}, submit |-> {"register", "put", "mark"},
   pause |-> {"get", "request", "write"}, resume |-> {"get", "request", "write"},
   stop |-> {"dequeue", "finish", "release", "get", "request", "write"},
   cancel |-> {"dequeue", "get", "request"}]

\* A thread is idle or serves a request about a row that exists.
RequestsServed ==
  \A t \in Threads :
    \/ op[t] = Idle
    \/ /\ op[t].kind # "idle" /\ op[t].id \in Executions
       /\ status[op[t].id] # "ABSENT"
       /\ op[t].step \in StepsOf[op[t].kind]

\* Nothing is known of an execution before its row exists.
AbsentIsNowhere ==
  \A e \in Executions :
    status[e] = "ABSENT" => e \notin queued_ids \cup started \cup handles \cup haltAccepted

\* Until put() returns, a run belongs to the one request that submits it: it
\* was never queued, and no other request can end it.  It has a handle from
\* register on, and nobody holds or used one before.
SoleOwner(t, e) ==
  /\ e \notin queued_ids \cup started
  /\ status[e] \notin Terminal
  /\ \A u \in Threads : ~Withdrawing(u, e) /\ (Submitting(u, e) => u = t)
  /\ op[t].step = "put" => e \in handles
  /\ op[t].step = "register" =>
       /\ e \notin handles \cup haltAccepted
       /\ \A u \in Threads : op[u].id = e => op[u].step # "request"
AdmittedOnce ==
  \A e \in Executions, t \in Threads : Submitting(t, e) => SoleOwner(t, e)

\* A run that a stop took out of the queue is never started afterwards.
WithdrawnNeverRuns ==
  \A e \in Executions, t \in Threads : Withdrawing(t, e) => e \notin queued_ids \cup started

\* The engine runs what a worker took, and has an outcome when it writes it.
RunsStarted ==
  \A e \in Executions : /\ run[e].pc = "idle" <=> e \notin started
                        /\ run[e].pc = "finalise" => run[e].outcome # None

\* As long as the run can still go on, an accepted halt stands in the flags:
\* no later registration of the handle wipes it out.
HaltHeld ==
  \A e \in haltAccepted :
    e \in queued_ids \/ Working(e) \/ (\E t \in Threads : Submitting(t, e)) => e \in stopping

\* Runs that compete for queue, workers and registry are kept apart, across
\* crashes: each promise above, with what it rests on.  Q!QueueInv is the
\* queue's own invariant.
LifecycleInv ==
  /\ ControlConsistent
  /\ Q!QueueInv
  /\ LiveRunsControllable
  /\ HaltNotLost
  /\ TerminalMeansOver
  /\ RequestsServed
  /\ AbsentIsNowhere
  /\ AdmittedOnce
  /\ WithdrawnNeverRuns
  /\ RunsStarted
  /\ HaltHeld

-----------------------------------------------------------------------------

\* A run in a worker's hands comes to its end unless it is left paused: the
\* clients' requests cannot wedge the scheduler's loop.
RunsEnd ==
  \A e \in Executions : Working(e) ~> (run[e].pc = "ended" \/ e \in paused)

\* An accepted stop or cancel ends the run, paused or not.
HaltEndsRun ==
  \A e \in Executions : e \in stopping /\ Working(e) ~> run[e].pc = "ended"

\* The lifecycle diagram of docs/EXECUTION_ENGINE.md has no arrow out of
\* COMPLETED, FAILED and CANCELLED.
TerminalIsFinal ==
  [][\A e \in Executions : status[e] \in Terminal => status'[e] \in Terminal]_vars

=============================================================================
