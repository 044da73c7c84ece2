----------------------------- MODULE SchedulerV1 -----------------------------
(***************************************************************************)
(* WorkflowEngine.submit, cancel, run_execution and _run_node_with_retry   *)
(* (backend/app/services/workflow/engine.py): the scheduler that answers   *)
(* POST /{execution_id}/run and unqueued submissions.  It knows no         *)
(* branches, loops or control flags; it is stopped by task.cancel() alone, *)
(* and the same execution may be submitted again once it is over.          *)
(*                                                                         *)
(* Row writes run in threads that go on when the task awaiting them is     *)
(* cancelled; they are over before the run ends.                           *)
(***************************************************************************)
EXTENDS Integers, FiniteSets, FiniteSetsExt

CONSTANTS
  Plans,    \* graphs with the policies of their nodes and the settings
  MaxRuns   \* bound: times the execution is submitted

\* The fields of a plan:
\*   nodes, edges            ids, and pairs of source and target
\*   on_error, max_retries   what _policy() returns for each node
\*   max_parallel            WORKFLOW_MAX_PARALLEL_NODES
\*   faults                  what may go wrong: "cancel", "store", "graph"
V1Assumption ==
  /\ MaxRuns \in Nat
  /\ \A p \in Plans :
       /\ IsFiniteSet(p.nodes) /\ p.edges \subseteq p.nodes \X p.nodes
       /\ p.on_error \in [p.nodes -> {"fail", "continue", "skip_branch"}]
       /\ p.max_retries \in [p.nodes -> 1..10]
       /\ p.max_parallel \in Nat \ {0}
       /\ p.faults \subseteq {"cancel", "store", "graph"}

VARIABLES
  plan,
  at,           \* where run_execution is; "idle" when no task is active
  submitted,    \* runs so far
  interrupted,  \* task.cancel() was called in this run
  completed, failed, skipped,
  fail_fast,
  task,         \* stage of each node's task, "none" when it has none
  attempt,      \* attempts each task has begun
  row,          \* status of each NodeExecution row
  status,       \* status of the WorkflowExecution row
  summary       \* status in what the last run returned, "none" before

vars == <<plan, at, submitted, interrupted, completed, failed, skipped, fail_fast, task,
          attempt, row, status, summary>>
results == <<completed, failed, skipped, fail_fast>>
tasks == <<task, attempt, row>>

nodes == plan.nodes
dependencies(n) == {e[1] : e \in {f \in plan.edges : f[2] = n}}

\* descendants(start, edges)
descendants(start) ==
  LET next(S) == {e[2] : e \in {f \in plan.edges : f[1] \in S}}
      below[k \in 0..Cardinality(nodes)] ==
        IF k = 0 THEN next({start}) ELSE below[k - 1] \cup next(below[k - 1])
  IN  below[Cardinality(nodes)]

IsValid == \A n \in nodes : n \notin descendants(n)

settled == completed \cup failed \cup skipped
running == {n \in nodes : task[n] # "none"}
finished == {n \in nodes : task[n] \in {"ok", "error"}}
ready == {n \in nodes \ (settled \cup running) : dependencies(n) \subseteq completed \cup skipped}

Holding == {"starting", "executing", "returned", "saving", "failing", "retrying", "backoff"}
Terminal == {"COMPLETED", "FAILED", "CANCELLED"}

Init ==
  /\ plan \in Plans
  /\ at = "idle" /\ submitted = 0 /\ interrupted = FALSE
  /\ completed = {} /\ failed = {} /\ skipped = {} /\ fail_fast = FALSE
  /\ task = [n \in nodes |-> "none"] /\ attempt = [n \in nodes |-> 0]
  /\ row = [n \in nodes |-> "absent"]
  /\ status = "PENDING" /\ summary = "none"

-----------------------------------------------------------------------------
(* The run. *)

\* submit(): a task of its own, unless one is active.
Submit ==
  /\ at = "idle" /\ submitted < MaxRuns
  /\ at' = "fetch"
  /\ submitted' = submitted + 1
  /\ interrupted' = FALSE
  /\ completed' = {} /\ failed' = {} /\ skipped' = {} /\ fail_fast' = FALSE
  /\ summary' = "none"
  /\ UNCHANGED <<plan, tasks, status>>

\* run_execution returns and the done callback drops it from active_tasks.
Return(how, written) ==
  /\ at' = "idle"
  /\ summary' = how
  /\ status' = written

\* _fetch_graph: a run that cannot read its graph writes nothing.
Fetch ==
  /\ at = "fetch" /\ ~interrupted
  /\ \/ "graph" \in plan.faults /\ Return("ERROR", status)
     \/ at' = "announce" /\ UNCHANGED <<status, summary>>
  /\ UNCHANGED <<plan, submitted, interrupted, results, tasks>>

\* A graph that validate_graph() refuses fails the run, any other starts it.
Announce ==
  /\ at = "announce" /\ ~interrupted
  /\ \/ ~IsValid /\ Return("FAILED", "FAILED")
     \/ IsValid /\ at' = "top" /\ status' = "RUNNING" /\ UNCHANGED summary
  /\ UNCHANGED <<plan, submitted, interrupted, results, tasks>>

\* Before the try block an exception leaves run_execution.  The row stays as it
\* is, or as the write under way leaves it.
DropRun ==
  /\ \/ at = "fetch" /\ interrupted /\ Return("dropped", status)
     \/ at = "announce" /\ interrupted
          /\ \E written \in {status, IF IsValid THEN "RUNNING" ELSE "FAILED"} :
               Return("dropped", written)
     \/ at = "announce" /\ "store" \in plan.faults /\ Return("dropped", status)
  /\ UNCHANGED <<plan, submitted, interrupted, results, tasks>>

\* The loop begins, or goes on behind a checkpoint.
Looping == ~interrupted /\ (at = "top" \/ (at = "checkpoint" /\ ~fail_fast))

\* A task for every node that is ready; with none in flight the loop ends, and
\* nodes left behind are SKIPPED.
Dispatch ==
  /\ Looping
  /\ LET idle == running \cup ready = {}
         stalled == IF idle THEN nodes \ settled ELSE {}
     IN  /\ task' = [n \in nodes |-> IF n \in ready THEN "queued" ELSE task[n]]
         /\ attempt' = [n \in nodes |-> IF n \in ready THEN 0 ELSE attempt[n]]
         /\ row' = [n \in nodes |-> IF n \in stalled THEN "SKIPPED" ELSE row[n]]
         /\ skipped' = skipped \cup stalled
         /\ at' = IF idle THEN "finalise" ELSE "wait"
  /\ UNCHANGED <<plan, submitted, interrupted, completed, failed, fail_fast, status, summary>>

\* What failures leave behind, besides the nodes that went well: go_on are
\* completed, and what lies below cut is skipped.
Sorted(oks, errors, go_on, cut) ==
  [completed |-> oks \cup go_on, failed |-> errors,
   skipped |-> (UNION {descendants(n) : n \in cut}) \ (completed \cup oks \cup go_on \cup skipped)]
Of(errors, policy) == {n \in errors : plan.on_error[n] = policy}

\* Mistake: a branch is also skipped where the workflow is to continue.
AfterFailures_cut(oks, errors) ==
  Sorted(oks, errors \ Of(errors, "continue"), Of(errors, "continue"),
         Of(errors, "continue") \cup Of(errors, "skip_branch"))

\* on_error=continue completes the node, skip_branch skips what lies below it.
AfterFailures(oks, errors) ==
  Sorted(oks, errors \ Of(errors, "continue"), Of(errors, "continue"), Of(errors, "skip_branch"))

\* asyncio.wait() returns the tasks finished by now; their results are sorted
\* in and the checkpoint is written.
Settle ==
  /\ at = "wait" /\ ~interrupted /\ finished # {}
  /\ at' = "checkpoint"
  /\ LET errors == {n \in finished : task[n] = "error"}
         after == AfterFailures(finished \ errors, errors)
     IN  /\ completed' = completed \cup after.completed
         /\ failed' = failed \cup after.failed
         /\ skipped' = skipped \cup after.skipped
         /\ fail_fast' = (Of(errors, "fail") # {})
         /\ row' = [n \in nodes |-> IF n \in after.skipped THEN "SKIPPED" ELSE row[n]]
  /\ task' = [n \in nodes |-> IF n \in finished THEN "none" ELSE task[n]]
  /\ UNCHANGED <<plan, submitted, interrupted, attempt, status, summary>>

\* task.cancel() on every task, then gather().  A task that was executing writes
\* CANCELLED, unless its executor had returned; of the writes under way some go
\* on.
CancelTasks ==
  /\ \E goes_on \in SUBSET {n \in nodes : task[n] \in {"starting", "saving", "failing"}} :
       row' = [n \in nodes |->
                 CASE task[n] = "executing" -> "CANCELLED"
                   [] task[n] = "returned" -> "COMPLETED"
                   [] task[n] = "saving" -> IF n \in goes_on THEN "COMPLETED" ELSE "CANCELLED"
                   [] task[n] = "starting" /\ n \in goes_on -> "RUNNING"
                   [] task[n] = "failing" /\ n \in goes_on -> "FAILED"
                   [] OTHER -> row[n]]
  /\ task' = [n \in nodes |-> "none"]
  /\ UNCHANGED attempt

\* Behind the checkpoint of a failing run: what finished meanwhile is dropped.
GiveUp ==
  /\ at = "checkpoint" /\ fail_fast /\ ~interrupted
  /\ at' = "finalise"
  /\ CancelTasks
  /\ UNCHANGED <<plan, submitted, interrupted, results, status, summary>>

\* The final status, with the lists of nodes.
Finalise ==
  /\ at = "finalise" /\ ~interrupted
  /\ LET how == IF failed # {} THEN "FAILED" ELSE "COMPLETED" IN Return(how, how)
  /\ UNCHANGED <<plan, submitted, interrupted, results, tasks>>

\* cancel() or shutdown(): the run is interrupted at its next await.
Cancel ==
  /\ at \notin {"idle", "top"} /\ ~interrupted /\ "cancel" \in plan.faults
  /\ interrupted' = TRUE
  /\ UNCHANGED <<plan, at, submitted, results, tasks, status, summary>>

\* The loop is left by CancelledError, or because a write of its own fails.
Unwind ==
  /\ \/ interrupted /\ at \in {"wait", "checkpoint", "finalise"}
          /\ Return("CANCELLED", "CANCELLED")
     \/ "store" \in plan.faults /\ ~interrupted /\ at \in {"checkpoint", "finalise"}
          /\ Return("FAILED", "FAILED")
  /\ CancelTasks
  /\ UNCHANGED <<plan, submitted, interrupted, results>>

-----------------------------------------------------------------------------
(* _run_node_with_retry. *)

Move(n, from, to, written) ==
  /\ task[n] = from
  /\ task' = [task EXCEPT ![n] = to]
  /\ row' = [row EXCEPT ![n] = written]
  /\ UNCHANGED <<plan, at, submitted, interrupted, results, status, summary>>

\* Under the semaphore, RUNNING is written ...
Enter(n) ==
  /\ Cardinality({m \in nodes : task[m] \in Holding}) < plan.max_parallel
  /\ Move(n, "queued", "starting", row[n])
  /\ UNCHANGED attempt

\* ... and the first attempt begins; later ones after the back-off.
Attempt(n) ==
  /\ Move(n, "starting", "executing", "RUNNING") \/ Move(n, "backoff", "executing", row[n])
  /\ attempt' = [attempt EXCEPT ![n] = @ + 1]

\* wait_for() has a result, COMPLETED is written.
Succeed(n) ==
  /\ Move(n, "executing", "returned", row[n]) \/ Move(n, "returned", "saving", row[n])
       \/ Move(n, "saving", "ok", "COMPLETED")
  /\ UNCHANGED attempt

\* The attempt raises or times out, or COMPLETED cannot be written.
Fail(n) ==
  /\ LET to == IF attempt[n] = plan.max_retries[n] THEN "failing" ELSE "retrying"
     IN  Move(n, "executing", to, row[n])
           \/ ("store" \in plan.faults /\ Move(n, "saving", to, row[n]))
  /\ UNCHANGED attempt

\* FAILED, or the retry, is written.
Record(n) ==
  /\ Move(n, "failing", "error", "FAILED") \/ Move(n, "retrying", "backoff", "RUNNING")
  /\ UNCHANGED attempt

\* Any other write raises: the task ends with that error.
StoreFails(n) ==
  /\ "store" \in plan.faults
  /\ \E stage \in {"starting", "failing", "retrying"} : Move(n, stage, "error", row[n])
  /\ UNCHANGED attempt

NodeStep(n) == Enter(n) \/ Attempt(n) \/ Succeed(n) \/ Fail(n) \/ Record(n) \/ StoreFails(n)

Step ==
  \/ Fetch \/ Announce \/ DropRun \/ Dispatch \/ Settle \/ GiveUp \/ Finalise \/ Unwind
  \/ \E n \in nodes : NodeStep(n)

Next == Submit \/ Cancel \/ Step

\* The coroutines and the store's threads go on; clients need not.
Spec == Init /\ [][Next]_vars /\ WF_vars(Step)

-----------------------------------------------------------------------------
TypeOK ==
  /\ plan \in Plans
  /\ at \in {"idle", "fetch", "announce", "top", "wait", "checkpoint", "finalise"}
  /\ submitted \in 0..MaxRuns
  /\ interrupted \in BOOLEAN /\ fail_fast \in BOOLEAN
  /\ completed \subseteq nodes /\ failed \subseteq nodes /\ skipped \subseteq nodes
  /\ task \in [nodes -> {"none", "queued", "ok", "error"} \cup Holding]
  /\ attempt \in [nodes -> 0..10]
  /\ row \in [nodes -> {"absent", "RUNNING", "SKIPPED"} \cup Terminal]
  /\ status \in {"PENDING", "RUNNING"} \cup Terminal
  /\ summary \in {"none", "ERROR", "dropped"} \cup Terminal

\* run_execution: COMPLETED means that every node was completed (or failed under
\* on_error=continue), however the failures, skips and stalls came in; a run
\* whose loop ended FAILED names a node that failed.
VerdictIsWhole ==
  /\ summary = "COMPLETED" => completed = nodes /\ status = "COMPLETED"
  /\ summary = "FAILED" /\ IsValid /\ "store" \notin plan.faults => failed # {}

\* A node is skipped only below one that failed, never beside a node that
\* completed behind it.
SkippedBelowFailures ==
  \A n \in skipped :
    /\ \E m \in failed : n \in descendants(m)
    /\ task[n] = "none" /\ n \notin completed \cup failed

\* The lists a run reports agree with the rows its threads wrote.
RowsMatchLists ==
  summary \in {"COMPLETED", "FAILED"} /\ "store" \notin plan.faults =>
    /\ \A n \in completed : row[n] \in {"COMPLETED"} \cup
                                 (IF plan.on_error[n] = "continue" THEN {"FAILED"} ELSE {})
    /\ \A n \in failed : row[n] = "FAILED"
    /\ \A n \in skipped : row[n] = "SKIPPED"

\* A submitted run ends, whatever fails: the loop neither waits for nodes that
\* can no longer run nor runs one again.
RunEnds == at # "idle" ~> at = "idle"

-----------------------------------------------------------------------------
(* Why they hold: the parts of an inductive invariant. *)

\* The first attempt follows RUNNING, the last is that of max_retries.
AttemptsBounded ==
  \A n \in nodes :
    /\ attempt[n] <= plan.max_retries[n]
    /\ task[n] \in {"queued", "starting"} => attempt[n] = 0
    /\ task[n] \in {"retrying", "backoff"} => attempt[n] < plan.max_retries[n]

\* Only the loop has tasks, it is entered with a valid graph, and what the run
\* returns is not known before it returns.
TasksInLoop ==
  /\ at \notin {"wait", "checkpoint"} => running = {}
  /\ at \in {"top", "wait", "checkpoint", "finalise"} => IsValid
  /\ at # "idle" => summary = "none"

\* A node has one outcome, and has none before its task is over.
OneOutcome ==
  /\ completed \cap failed = {} /\ completed \cap skipped = {} /\ failed \cap skipped = {}
  /\ settled \cap running = {}

\* Whatever ran has nothing but completed nodes above it ...
AboveIsCompleted ==
  \A m \in completed \cup failed \cup running : \A n \in nodes :
    m \in descendants(n) => n \in completed

\* ... and a branch is skipped as a whole.
BelowIsSkipped == \A n \in skipped : descendants(n) \subseteq skipped

FailedAbove == \A n \in skipped : \E m \in failed : n \in descendants(m)

\* The loop ends with every node settled, or because one failed.
LoopEnds ==
  /\ fail_fast => failed # {}
  /\ at = "finalise" /\ failed = {} => settled = nodes

\* What a task wrote last is what its result says, and stays.
RowsKept ==
  "store" \notin plan.faults =>
    /\ \A n \in nodes : /\ task[n] = "ok" => row[n] = "COMPLETED"
                        /\ task[n] = "error" => row[n] = "FAILED"
    /\ \A n \in completed : \/ row[n] = "COMPLETED"
                            \/ row[n] = "FAILED" /\ plan.on_error[n] = "continue"
    /\ \A n \in failed : row[n] = "FAILED"
    /\ \A n \in skipped : row[n] = "SKIPPED"

V1Inv ==
  /\ TypeOK
  /\ AttemptsBounded
  /\ TasksInLoop
  /\ OneOutcome
  /\ AboveIsCompleted
  /\ BelowIsSkipped
  /\ FailedAbove
  /\ LoopEnds
  /\ RowsKept
  /\ VerdictIsWhole

=============================================================================
