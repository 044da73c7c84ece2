------------------------------ MODULE Scheduler ------------------------------
(***************************************************************************)
(* How one run schedules its workflow's graph: run_execution_v2 and        *)
(* _run_node_v2 (backend/app/services/workflow/engine.py) with the graph   *)
(* helpers they call (graph.py).                                           *)
(*                                                                         *)
(* The scheduler is one coroutine, each node in flight is another: they    *)
(* interleave at awaits only.  Clients set the control flags from other    *)
(* threads at any time, so each read of a flag starts a step of its own.   *)
(* The execution's own row is the subject of ExecutionLifecycle and is     *)
(* left out here; the rows of the nodes are kept.                          *)
(***************************************************************************)
EXTENDS Integers, Sequences, FiniteSets, FiniteSetsExt, Folds

CONSTANTS
  Plans,  \* what a run may be given: its workflow, the settings, the surroundings
  Run     \* the execution

Settings == {"WORKFLOW_MAX_PARALLEL_NODES", "WORKFLOW_MAX_NODE_EXECUTIONS"}

\* A plan has these fields:
\*   nodes       ids; Python iterates a set of ids below 8 in ascending order
\*   edges       forward edges <<source, target, label>>, "" for no label
\*   loop_edges  the sequence of loop back-edges <<source, target>>
\*   on_error, max_retries, loop_limit   what _policy() and _loop_limit() say
\*   decisions   for each node the branch lists its executor may declare
\*   settings    the two settings above
\*   requests    the kinds of control request clients send
\*   faults      what goes wrong outside nodes: "deadline", "interrupt", "engine"
ASSUME SchedulerAssumption ==
  \A p \in Plans :
    /\ p.nodes \subseteq 0..7
    /\ p.edges \subseteq p.nodes \X p.nodes \X STRING
    /\ p.loop_edges \in Seq(p.nodes \X p.nodes)
    /\ p.on_error \in [p.nodes -> {"fail", "continue", "skip_branch"}]
    /\ p.max_retries \in [p.nodes -> 1..10]
    /\ p.loop_limit \in [p.nodes -> Nat]
    /\ \A n \in p.nodes : p.decisions[n] \subseteq SUBSET STRING
    /\ p.settings \in [Settings -> Nat \ {0}]
    /\ p.requests \subseteq {"pause", "resume", "stop", "cancel"}

VARIABLES
  plan,            \* the plan of this run, never changed
  pc,              \* where the scheduler is
  completed, failed, skipped, suppressed,
  branch_choices,  \* the labels each node chose, {} for no entry
  iterations,      \* rounds begun by each loop edge
  node_run_count,
  fail_fast,
  stopped_early,
  abort_reason,    \* TRUE once one is set
  done,            \* finished tasks the loop over done has yet to see
  loop,            \* position of the loop over loop_edges
  task,            \* each node's task; "none" when it has none in tasks
  attempt,         \* attempts each task has begun
  output,          \* the branches a node's executor declared last
  branches,        \* the branches its task returned
  last_branches,   \* context["__last_branches__"], shared by all nodes
  row,             \* status column of each NodeExecution
  outcome,         \* terminal status, "none" until chosen
  unwound,         \* the loop was left by an exception
  late,            \* the wall-clock deadline has passed
  handles, paused, stopping, cancelled  \* ControlRegistry

Nodes == plan.nodes
Edges == plan.edges
LoopEdges == plan.loop_edges
OnError == plan.on_error
MaxRetries == plan.max_retries
LoopLimit == plan.loop_limit
WORKFLOW_MAX_PARALLEL_NODES == plan.settings["WORKFLOW_MAX_PARALLEL_NODES"]
WORKFLOW_MAX_NODE_EXECUTIONS == plan.settings["WORKFLOW_MAX_NODE_EXECUTIONS"]
Labels == UNION UNION {plan.decisions[n] : n \in Nodes}

C == INSTANCE ControlRegistry WITH Executions <- {Run}, cancelling <- cancelled

graphVars == <<completed, failed, skipped, suppressed, branch_choices, iterations>>
haltVars == <<node_run_count, fail_fast, stopped_early, abort_reason, outcome, unwound>>
taskVars == <<task, attempt, output, branches, last_branches, row>>
envVars == <<plan, late, handles, paused, stopping, cancelled>>
vars == <<plan, pc, completed, failed, skipped, suppressed, branch_choices, iterations,
          node_run_count, fail_fast, stopped_early, abort_reason, done, loop, task,
          attempt, output, branches, last_branches, row, outcome, unwound, late,
          handles, paused, stopping, cancelled>>

-----------------------------------------------------------------------------
(* graph.py, and the closures of run_execution_v2. *)

\* The sources of forward edges into t.
inbound(t) == {e[1] : e \in {f \in Edges : f[2] = t}}

\* The targets of forward edges out of the set S.
successors(S) == {e[2] : e \in {f \in Edges : f[1] \in S}}

\* descendants(start, forward_edges)
descendants(start) ==
  LET seen[k \in 0..Cardinality(Nodes)] ==
        IF k = 0 THEN successors({start}) ELSE seen[k - 1] \cup successors(seen[k - 1])
  IN  seen[Cardinality(Nodes)] \ {start}

\* loop_body(entry, exit_node, forward_edges)
loop_body(entry, exit_node) ==
  LET from == descendants(entry) \cup {entry}
  IN  {n \in from : exit_node \in descendants(n) \cup {n}} \cup {entry, exit_node}

\* gated_out(): targets of labelled edges out of n that its choice left out.
gated_out(choice, n) ==
  IF choice[n] = {} THEN {}
  ELSE {e[2] : e \in {f \in Edges : f[1] = n /\ f[3] # "" /\ f[3] \notin choice[n]}}

\* Mistake: everything below a blocked edge is cut off.
recompute_suppressed_all(choice, kept) ==
  LET newly == UNION {gated_out(choice, s) : s \in Nodes}
  IN  suppressed \cup ((newly \cup UNION {descendants(t) : t \in newly}) \ kept)

\* recompute_suppressed(), where kept are the nodes completed or running.  The
\* cascade visits the descendants of each new target once, in ascending order.
recompute_suppressed(choice, kept) ==
  LET blocked(s, t) == t \in gated_out(choice, s)
      newly == {t \in Nodes \ kept :
                  /\ \E s \in Nodes : blocked(s, t)
                  /\ \A s \in inbound(t) : blocked(s, t) \/ s \in suppressed \cup skipped}
      visit(child, cut) ==
        IF child \notin kept /\ inbound(child) \subseteq cut \cup skipped
        THEN cut \cup {child} ELSE cut
      cascade(root, cut) ==
        MapThenFoldSet(visit, cut, LAMBDA c : c, Max, descendants(root))
  IN  IF newly \subseteq suppressed THEN suppressed
      ELSE MapThenFoldSet(cascade, suppressed \cup newly, LAMBDA r : r, Max, newly)

settled == completed \cup failed \cup skipped \cup suppressed
running == {n \in Nodes : task[n] # "none"}
finished == {n \in Nodes : task[n] \in {"ok", "error"}}

ready ==
  {n \in Nodes \ (settled \cup running) :
     /\ inbound(n) \subseteq completed \cup skipped \cup suppressed
     /\ \A s \in inbound(n) : n \notin gated_out(branch_choices, s)}

-----------------------------------------------------------------------------
(* Tasks. *)

\* Tasks that hold the semaphore.
holding == {n \in Nodes : task[n] \in {"starting", "executing", "returned", "saving",
                                "backoff"}}

\* A task takes the semaphore and writes RUNNING.
Start(n) ==
  /\ task[n] = "queued"
  /\ Cardinality(holding) < WORKFLOW_MAX_PARALLEL_NODES
  /\ task' = [task EXCEPT ![n] = "starting"]
  /\ row' = [row EXCEPT ![n] = "RUNNING"]
  /\ UNCHANGED <<pc, graphVars, haltVars, done, loop, attempt, output, branches,
                 last_branches, envVars>>

\* An attempt begins: the shared entry is dropped and the executor runs as a
\* task of its own under wait_for().
Attempt(n) ==
  /\ task[n] \in {"starting", "backoff"}
  /\ task' = [task EXCEPT ![n] = "executing"]
  /\ attempt' = [attempt EXCEPT ![n] = @ + 1]
  /\ last_branches' = {}
  /\ UNCHANGED <<pc, graphVars, haltVars, done, loop, output, branches, row, envVars>>

\* RuntimeNodeExecutor.execute() publishes the decision d in the shared entry
\* and returns; the task that awaits it has yet to be resumed.
ExecutorReturns(n, d) ==
  /\ task[n] = "executing"
  /\ task' = [task EXCEPT ![n] = "returned"]
  /\ output' = [output EXCEPT ![n] = d]
  /\ last_branches' = IF d = {} THEN last_branches ELSE d
  /\ UNCHANGED <<pc, graphVars, haltVars, done, loop, attempt, branches, row, envVars>>

\* The task resumes and pops the shared entry, or reads "branch" from its own
\* result when there is none.
AttemptSucceeds(n) ==
  /\ task[n] = "returned"
  /\ task' = [task EXCEPT ![n] = "saving"]
  /\ branches' = [branches EXCEPT ![n] = IF last_branches # {} THEN last_branches
                                         ELSE output[n]]
  /\ last_branches' = {}
  /\ UNCHANGED <<pc, graphVars, haltVars, done, loop, attempt, output, row, envVars>>

\* Mistake: the row is left RUNNING.
SaveForgotten(n) ==
  /\ task[n] = "saving"
  /\ task' = [task EXCEPT ![n] = "ok"]
  /\ UNCHANGED <<pc, graphVars, haltVars, done, loop, attempt, output, branches,
                 last_branches, row, envVars>>

\* COMPLETED is written and the task returns.
Save(n) ==
  /\ task[n] = "saving"
  /\ task' = [task EXCEPT ![n] = "ok"]
  /\ row' = [row EXCEPT ![n] = "COMPLETED"]
  /\ UNCHANGED <<pc, graphVars, haltVars, done, loop, attempt, output, branches,
                 last_branches, envVars>>

\* The attempt times out or raises, or writing COMPLETED raises; the error may
\* be retryable or not.
AttemptFails(n, retryable) ==
  /\ task[n] \in {"executing", "saving"}
  /\ IF retryable /\ attempt[n] < MaxRetries[n]
     THEN task' = [task EXCEPT ![n] = "backoff"] /\ UNCHANGED row
     ELSE /\ task' = [task EXCEPT ![n] = "error"]
          /\ row' = [row EXCEPT ![n] = "FAILED"]
  /\ UNCHANGED <<pc, graphVars, haltVars, done, loop, attempt, output, branches,
                 last_branches, envVars>>

\* task.cancel() on every task, then gather().  An attempt catches it and writes
\* CANCELLED, unless its executor is done already: wait_for() then returns the
\* result.  A task that waits for the semaphore, for its first write or for its
\* next attempt just ends.
CancelTasks ==
  /\ row' = [n \in Nodes |->
               CASE task[n] \in {"executing", "saving"} -> "CANCELLED"
                 [] task[n] = "returned" -> "COMPLETED"
                 [] OTHER -> row[n]]
  /\ task' = [n \in Nodes |-> "none"]
  /\ last_branches' = {}
  /\ UNCHANGED <<attempt, output, branches>>

-----------------------------------------------------------------------------
(* The scheduler's loop. *)

Goto(where) == pc' = where

\* The loop ends with an exception: tasks are cancelled, the outcome is fixed.
Unwind(status) ==
  /\ CancelTasks
  /\ outcome' = status
  /\ unwound' = TRUE
  /\ Goto("finalise")
  /\ done' = {}
  /\ UNCHANGED <<graphVars, node_run_count, fail_fast, stopped_early, abort_reason,
                 loop, envVars>>

\* Top of the loop: the deadline, then the first read of is_paused.
Top ==
  /\ pc = "top"
  /\ IF late /\ ~abort_reason
     THEN abort_reason' = TRUE /\ fail_fast' = TRUE
     ELSE UNCHANGED <<abort_reason, fail_fast>>
  /\ Goto(IF Run \in paused /\ running = {} THEN "parked" ELSE "halt")
  /\ UNCHANGED <<graphVars, node_run_count, stopped_early, outcome, unwound, done, loop,
                 taskVars, envVars>>

\* wait_if_paused() returns.
Unpark ==
  /\ pc = "parked"
  /\ Run \notin paused
  /\ Goto("top")
  /\ UNCHANGED <<graphVars, haltVars, done, loop, taskVars, envVars>>

\* is_cancelled
CheckCancelled ==
  /\ pc = "halt"
  /\ IF Run \in cancelled
     THEN Unwind("CANCELLED")
     ELSE /\ Goto("stop")
          /\ UNCHANGED <<graphVars, haltVars, done, loop, taskVars, envVars>>

\* is_stopping, then the end of the loop if every node is settled.
CheckStopping ==
  /\ pc = "stop"
  /\ stopped_early' = (stopped_early \/ (Run \in stopping /\ ~fail_fast))
  /\ Goto(IF settled = Nodes /\ running = {} THEN "decide" ELSE "dispatch")
  /\ UNCHANGED <<graphVars, node_run_count, fail_fast, abort_reason, outcome, unwound,
                 done, loop, taskVars, envVars>>

\* The rows after _persist_node_result(SKIPPED) on the nodes of S.
SkipRows(S) ==
  [n \in Nodes |-> IF n \in S THEN "SKIPPED" ELSE row[n]]

\* Mistakes: the cap stops the dispatch but not the run; the loop waits although
\* nothing is in flight.
DispatchWith(aborts, waits) ==
  /\ pc = "dispatch"
  /\ LET wanted == IF fail_fast \/ stopped_early \/ Run \in paused THEN {} ELSE ready
         room == WORKFLOW_MAX_NODE_EXECUTIONS - node_run_count
         started == {n \in wanted : Cardinality({m \in wanted : m < n}) < room}
         idle == running \cup started = {}
     IN  /\ task' = [n \in Nodes |-> IF n \in started THEN "queued" ELSE task[n]]
         /\ attempt' = [n \in Nodes |-> IF n \in started THEN 0 ELSE attempt[n]]
         /\ node_run_count' = node_run_count + Cardinality(started)
         /\ abort_reason' = (abort_reason \/ (aborts /\ started # wanted))
         /\ Goto(IF idle /\ ~waits THEN "decide" ELSE "wait")
  /\ UNCHANGED <<completed, failed, skipped, suppressed, branch_choices, iterations,
                 stopped_early, fail_fast, outcome, unwound, done, loop, output, branches,
                 last_branches, row, envVars>>
DispatchForgetsAbort == DispatchWith(FALSE, FALSE)
DispatchWaits == DispatchWith(TRUE, TRUE)

\* Second read of is_paused.  Tasks are created for the ready nodes, up to the
\* cap on node executions; with no task at all the loop ends, and the nodes not
\* settled are marked SKIPPED unless the run is failing or stopping.
Dispatch ==
  /\ pc = "dispatch"
  /\ LET wanted == IF fail_fast \/ stopped_early \/ Run \in paused THEN {} ELSE ready
         room == WORKFLOW_MAX_NODE_EXECUTIONS - node_run_count
         started == {n \in wanted : Cardinality({m \in wanted : m < n}) < room}
         capped == started # wanted
         idle == running \cup started = {}
         stalled == IF idle /\ ~(fail_fast \/ capped \/ stopped_early)
                    THEN Nodes \ settled ELSE {}
     IN  /\ task' = [n \in Nodes |-> IF n \in started THEN "queued" ELSE task[n]]
         /\ attempt' = [n \in Nodes |-> IF n \in started THEN 0 ELSE attempt[n]]
         /\ node_run_count' = node_run_count + Cardinality(started)
         /\ abort_reason' = (abort_reason \/ capped)
         /\ fail_fast' = (fail_fast \/ capped)
         /\ skipped' = skipped \cup stalled
         /\ row' = SkipRows(stalled)
         /\ Goto(IF idle THEN "decide" ELSE "wait")
  /\ UNCHANGED <<completed, failed, suppressed, branch_choices, iterations, stopped_early,
                 outcome, unwound, done, loop, output, branches, last_branches, envVars>>

\* asyncio.wait() returns every task finished by now ...
Wait ==
  /\ pc = "wait"
  /\ finished # {}
  /\ done' = finished
  /\ Goto("process")
  /\ UNCHANGED <<graphVars, haltVars, loop, taskVars, envVars>>

\* ... or nothing after a second.
WaitTimesOut ==
  /\ pc = "wait"
  /\ finished = {}
  /\ Goto("top")
  /\ UNCHANGED <<graphVars, haltVars, done, loop, taskVars, envVars>>

\* The loop takes the next finished task, in no particular order.
PopTask(n) ==
  /\ pc = "process"
  /\ n \in done
  /\ done' = done \ {n}
  /\ task' = [task EXCEPT ![n] = "none"]

\* A node succeeded: its branch decision, if any, cuts off nodes.
NodeCompleted(n) ==
  /\ PopTask(n)
  /\ task[n] = "ok"
  /\ completed' = completed \cup {n}
  /\ IF branches[n] = {}
     THEN UNCHANGED <<branch_choices, suppressed>>
     ELSE LET choice == [branch_choices EXCEPT ![n] = branches[n]]
          IN  /\ branch_choices' = choice
              /\ suppressed' = recompute_suppressed(choice, completed \cup running)
  /\ UNCHANGED <<pc, failed, skipped, iterations, haltVars, loop, attempt, output,
                 branches, last_branches, row, envVars>>

\* A node failed for good; its on_error policy decides.
NodeFailed(n) ==
  /\ PopTask(n)
  /\ task[n] = "error"
  /\ CASE OnError[n] = "continue" ->
            /\ completed' = completed \cup {n}
            /\ failed' = failed \ {n}
            /\ UNCHANGED <<skipped, row, fail_fast>>
       [] OnError[n] = "skip_branch" ->
            LET branch == descendants(n) \ (completed \cup skipped)
            IN  /\ failed' = failed \cup {n}
                /\ skipped' = skipped \cup branch
                /\ row' = SkipRows(branch)
                /\ UNCHANGED <<completed, fail_fast>>
       [] OTHER ->
            /\ failed' = failed \cup {n}
            /\ fail_fast' = TRUE
            /\ UNCHANGED <<completed, skipped, row>>
  /\ output' = [output EXCEPT ![n] = {}]
  /\ UNCHANGED <<pc, suppressed, branch_choices, iterations, node_run_count, stopped_early,
                 abort_reason, outcome, unwound, loop, attempt, branches, last_branches,
                 envVars>>

BatchProcessed ==
  /\ pc = "process"
  /\ done = {}
  /\ Goto("loops")
  /\ loop' = 1
  /\ UNCHANGED <<graphVars, haltVars, done, taskVars, envVars>>

\* _loop_should_continue(): a condition that closes the loop decides.
loop_should_continue(source) == output[source] # {"false"}

\* Mistake: only the first node of the body is reset.
LoopEdgeResetsEntry ==
  /\ pc = "loops"
  /\ loop <= Len(LoopEdges) /\ ~fail_fast /\ ~stopped_early
  /\ loop' = loop + 1
  /\ LET source == LoopEdges[loop][1]
         target == LoopEdges[loop][2]
         again == /\ {source, target} \subseteq completed
                  /\ iterations[loop] < LoopLimit[target]
                  /\ loop_should_continue(source)
     IN  /\ iterations' = [iterations EXCEPT ![loop] = IF again THEN @ + 1 ELSE @]
         /\ completed' = IF again THEN completed \ {target} ELSE completed
  /\ UNCHANGED <<pc, failed, skipped, suppressed, branch_choices, haltVars, done, taskVars,
                 envVars>>

\* One loop back-edge: when both ends are completed and neither the limit nor
\* the closing condition says otherwise, the body is reset for another round.
LoopEdge ==
  /\ pc = "loops"
  /\ loop <= Len(LoopEdges) /\ ~fail_fast /\ ~stopped_early
  /\ loop' = loop + 1
  /\ LET source == LoopEdges[loop][1]
         target == LoopEdges[loop][2]
         body == loop_body(target, source)
         count == iterations[loop]
     IN  IF /\ {source, target} \subseteq completed
            /\ count < LoopLimit[target]
            /\ loop_should_continue(source)
         THEN /\ iterations' = [iterations EXCEPT ![loop] = count + 1]
              /\ completed' = completed \ body
              /\ failed' = failed \ body
              /\ skipped' = skipped \ body
              /\ suppressed' = suppressed \ body
              /\ branch_choices' = [n \in Nodes |-> IF n \in body THEN {}
                                                    ELSE branch_choices[n]]
              /\ row' = [n \in Nodes |-> IF n \in body /\ row[n] # "ABSENT"
                                         THEN "PENDING"
                                         ELSE row[n]]
         ELSE UNCHANGED <<graphVars, row>>
  /\ UNCHANGED <<pc, haltVars, done, task, attempt, output, branches, last_branches, envVars>>

\* Mistake: a graceful stop cancels what is in flight.
AfterBatchCancels ==
  /\ pc = "loops"
  /\ loop > Len(LoopEdges) \/ fail_fast \/ stopped_early
  /\ IF fail_fast \/ stopped_early THEN CancelTasks /\ Goto("decide")
     ELSE Goto("top") /\ UNCHANGED taskVars
  /\ UNCHANGED <<graphVars, haltVars, done, loop, envVars>>

\* End of the round: failing fast cancels the tasks in flight and ends the
\* loop, a graceful stop lets them finish.
AfterBatch ==
  /\ pc = "loops"
  /\ loop > Len(LoopEdges) \/ fail_fast \/ stopped_early
  /\ IF fail_fast THEN CancelTasks /\ Goto("decide")
     ELSE Goto("top") /\ UNCHANGED taskVars
  /\ UNCHANGED <<graphVars, haltVars, done, loop, envVars>>

\* The terminal status, after the loop; is_stopping is read again.
Decide ==
  /\ pc = "decide"
  /\ outcome' = IF failed # {} \/ abort_reason THEN "FAILED"
                ELSE IF stopped_early \/ Run \in stopping THEN "CANCELLED"
                ELSE "COMPLETED"
  /\ Goto("finalise")
  /\ UNCHANGED <<graphVars, node_run_count, fail_fast, stopped_early, abort_reason, unwound,
                 done, loop, taskVars, envVars>>

\* The terminal row is written and the handle released.
Finalise ==
  /\ pc = "finalise"
  /\ C!Release(Run)
  /\ Goto("ended")
  /\ UNCHANGED <<graphVars, haltVars, done, loop, taskVars, plan, late>>

-----------------------------------------------------------------------------
(* Everything else that happens to a run. *)

\* A client's request; a thread may hold the handle after it was released.
Client(kind) ==
  /\ kind \in plan.requests
  /\ C!Accept(kind, Run)
  /\ UNCHANGED <<pc, graphVars, haltVars, done, loop, taskVars, plan, late>>

\* Time passes the deadline.
Deadline ==
  /\ "deadline" \in plan.faults
  /\ ~late
  /\ late' = TRUE
  /\ UNCHANGED <<pc, graphVars, haltVars, done, loop, taskVars, plan, handles, paused,
                 stopping, cancelled>>

\* The coroutine itself is cancelled while it waits: by shutdown, or by cancel()
\* of a run that was submitted without the queue.
Interrupt ==
  /\ "interrupt" \in plan.faults
  /\ pc \in {"parked", "wait"}
  /\ Unwind("CANCELLED")

\* A write of the scheduler raises: PAUSED, SKIPPED, the reset of a loop body or
\* the terminal row.
EngineFault ==
  /\ "engine" \in plan.faults
  /\ ~unwound
  /\ \/ pc \in {"parked", "finalise"}
     \/ pc = "process" /\ \E n \in done : task[n] = "error" /\ OnError[n] = "skip_branch"
     \/ pc = "loops" /\ loop <= Len(LoopEdges)
  /\ Unwind("FAILED")

-----------------------------------------------------------------------------

Init ==
  /\ plan \in Plans
  /\ pc = "top"
  /\ completed = {} /\ failed = {} /\ skipped = {} /\ suppressed = {}
  /\ branch_choices = [n \in Nodes |-> {}]
  /\ iterations = [i \in DOMAIN LoopEdges |-> 0]
  /\ node_run_count = 0
  /\ fail_fast = FALSE /\ stopped_early = FALSE /\ abort_reason = FALSE
  /\ done = {} /\ loop = 1
  /\ task = [n \in Nodes |-> "none"] /\ attempt = [n \in Nodes |-> 0]
  /\ output = [n \in Nodes |-> {}] /\ branches = [n \in Nodes |-> {}]
  /\ last_branches = {}
  /\ row = [n \in Nodes |-> "ABSENT"]
  /\ outcome = "none" /\ unwound = FALSE /\ late = FALSE
  /\ handles = {Run} /\ paused = {} /\ stopping = {} /\ cancelled = {}

NodeStep(n) ==
  \/ Start(n)
  \/ Attempt(n)
  \/ \E d \in plan.decisions[n] : ExecutorReturns(n, d)
  \/ AttemptSucceeds(n)
  \/ Save(n)
  \/ \E retryable \in BOOLEAN : AttemptFails(n, retryable)

SchedulerStep ==
  \/ Top \/ Unpark \/ CheckCancelled \/ CheckStopping \/ Dispatch
  \/ Wait \/ WaitTimesOut
  \/ \E n \in Nodes : NodeCompleted(n) \/ NodeFailed(n)
  \/ BatchProcessed \/ LoopEdge \/ AfterBatch \/ Decide \/ Finalise

Next ==
  \/ SchedulerStep
  \/ \E n \in Nodes : NodeStep(n)
  \/ \E kind \in plan.requests : Client(kind)
  \/ Deadline \/ Interrupt \/ EngineFault

Spec == Init /\ [][Next]_vars

\* The event loop runs what is ready: the scheduler, and the nodes, whose
\* attempts end at their timeout and whose back-off is finite.
FairSpec ==
  /\ Spec
  /\ WF_vars(SchedulerStep)
  /\ \A n \in UNION {p.nodes : p \in Plans} : WF_vars(n \in Nodes /\ NodeStep(n))

-----------------------------------------------------------------------------
(* What the scheduler promises. *)

Statuses == {"ABSENT", "PENDING", "RUNNING", "COMPLETED", "FAILED", "SKIPPED", "CANCELLED"}

TypeOK ==
  /\ pc \in {"top", "parked", "halt", "stop", "dispatch", "wait", "process", "loops",
             "decide", "finalise", "ended"}
  /\ completed \subseteq Nodes /\ failed \subseteq Nodes
  /\ skipped \subseteq Nodes /\ suppressed \subseteq Nodes
  /\ branch_choices \in [Nodes -> SUBSET Labels]
  /\ plan \in Plans
  /\ \A i \in DOMAIN LoopEdges : iterations[i] \in 0..LoopLimit[LoopEdges[i][2]]
  /\ node_run_count \in 0..WORKFLOW_MAX_NODE_EXECUTIONS
  /\ {fail_fast, stopped_early, abort_reason, unwound, late} \subseteq BOOLEAN
  /\ done \subseteq Nodes
  /\ loop \in 1..(Len(LoopEdges) + 1)
  /\ task \in [Nodes -> {"none", "queued", "starting", "executing", "returned", "saving",
                         "backoff", "ok", "error"}]
  /\ \A n \in Nodes : attempt[n] \in 0..MaxRetries[n]
  /\ output \in [Nodes -> SUBSET Labels]
  /\ branches \in [Nodes -> SUBSET Labels]
  /\ last_branches \in SUBSET Labels
  /\ row \in [Nodes -> Statuses]
  /\ outcome \in {"none", "COMPLETED", "FAILED", "CANCELLED"}

\* The books of the run agree: a node is in flight, completed, failed or left
\* out, never two of these, through retries, loops, branches and failures.
OnePlace ==
  /\ completed \cap failed = {}
  /\ (completed \cup failed) \cap (skipped \cup suppressed) = {}
  /\ running \cap settled = {}

\* Data flow: whatever runs or has run had all its dependencies settled, and
\* still has; so the node after a loop waits for the last round, and a round
\* that begins anew leaves nothing computed from the old one.
RunsAfterDependencies ==
  \A n \in running \cup completed :
    inbound(n) \subseteq completed \cup skipped \cup suppressed

\* A run reported COMPLETED left no node undecided and no failure unreported:
\* reaching the cap on executions, or the deadline, never looks like success.
CompletedIsWhole ==
  outcome = "COMPLETED" => Nodes \subseteq settled /\ failed = {} /\ ~abort_reason

\* The nodes the decisions lead to: an edge is followed unless it has a label
\* that its source, being a condition, did not choose.
Followed(e) == e[3] = "" \/ output[e[1]] = {} \/ e[3] \in output[e[1]]
Taken ==
  LET reached[k \in 0..Cardinality(Nodes)] ==
        IF k = 0 THEN {n \in Nodes : inbound(n) = {}}
        ELSE reached[k - 1] \cup
             {e[2] : e \in {f \in Edges : f[1] \in reached[k - 1] /\ Followed(f)}}
  IN  reached[Cardinality(Nodes)]

\* A run that completes has run exactly the nodes its conditions lead to: the
\* branch not taken is cut off and a join behind the branch taken still runs.
\* (Pauses are the subject of SkippedForCause.)
FollowsDecisions ==
  outcome = "COMPLETED" /\ "pause" \notin plan.requests => completed = Taken

\* "Upstream dependency did not complete" is true of every node so marked.
SkippedForCause ==
  \A n \in skipped : ~(inbound(n) \subseteq completed)

\* A stop drains: without a failure or a cancellation of the whole run, no node
\* that was started is cancelled.
StopDrains ==
  (\E n \in Nodes : row[n] = "CANCELLED") => fail_fast \/ unwound

\* The rows a client reads when the run is over tell what the scheduler's own
\* summary tells.
RowsMatchSummary ==
  pc = "ended" /\ ~unwound =>
    \A n \in Nodes :
      /\ n \in completed => row[n] \in {"COMPLETED", "FAILED"}
      /\ n \in completed /\ row[n] = "FAILED" => OnError[n] = "continue"
      /\ n \in failed => row[n] = "FAILED"
      /\ n \in skipped => row[n] = "SKIPPED"

\* The scheduler's sets, tasks and rows agree at every step and at the end.
BooksAgree == TypeOK /\ OnePlace /\ RowsMatchSummary

\* What the promises about a run's end rest on.  A node with a result has no
\* task left ...
ResultsFinal == running \cap (completed \cup failed) = {}

\* ... a run that fails fast goes on having a cause for it, whatever "continue"
\* policies and loops do to the results ...
CauseKept == fail_fast => abort_reason \/ failed # {}

\* ... there is no outcome before the loop is over, and whoever leaves the loop
\* has left no node undecided or has a reason to.
OutcomeLast == pc \notin {"finalise", "ended"} => outcome = "none"
LoopLeftWhole ==
  pc = "decide" => \/ Nodes \subseteq settled
                   \/ failed # {} \/ abort_reason \/ stopped_early

\* The inductive invariant of a run's end.
EndInv ==
  /\ task \in [Nodes -> {"none", "queued", "starting", "executing", "returned", "saving",
                         "backoff", "ok", "error"}]
  /\ row \in [Nodes -> Statuses]
  /\ fail_fast \in BOOLEAN /\ abort_reason \in BOOLEAN /\ stopped_early \in BOOLEAN
  /\ unwound \in BOOLEAN
  /\ ResultsFinal /\ CauseKept /\ OutcomeLast /\ LoopLeftWhole
  /\ CompletedIsWhole /\ StopDrains

\* The scheduler comes to its end, loops, retries and failures included, unless
\* a client keeps it paused.
Terminates == []<>(pc = "ended" \/ Run \in paused)

=============================================================================
