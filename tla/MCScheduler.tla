----------------------------- MODULE MCScheduler -----------------------------
(* Workflows on which TLC runs the Scheduler. *)
EXTENDS Scheduler

\* A condition's decisions, and those of any other node.
Decided == {{"true"}, {"false"}}
Silent == {{}}

\* A plan whose nodes fail the run at their first failure; deciders are its
\* condition nodes.
Workflow(nodes, edges, loops, deciders) ==
  [nodes |-> nodes, edges |-> edges, loop_edges |-> loops,
   on_error |-> [n \in nodes |-> "fail"],
   max_retries |-> [n \in nodes |-> 1],
   loop_limit |-> [n \in nodes |-> 2],
   decisions |-> [n \in nodes |-> IF n \in deciders THEN Decided ELSE Silent],
   settings |-> [s \in Settings |-> IF s = "WORKFLOW_MAX_PARALLEL_NODES" THEN 2 ELSE 8],
   requests |-> {}, faults |-> {}]

\* The condition of docs/EXECUTION_ENGINE.md: 2 and 3 are its branches, 4 joins.
Branch ==
  [Workflow(1..4, {<<1, 2, "true">>, <<1, 3, "false">>, <<2, 4, "">>, <<3, 4, "">>}, <<>>, {1})
   EXCEPT !.on_error = <<"fail", "continue", "skip_branch", "fail">>,
          !.max_retries = <<2, 2, 1, 1>>,
          !.requests = {"stop", "cancel"},
          !.faults = {"deadline", "interrupt", "engine"}]

\* Two nodes side by side, one at a time, with a cap below the number of nodes.
Parallel ==
  [Workflow(1..4, {<<1, 2, "">>, <<1, 3, "">>, <<2, 4, "">>, <<3, 4, "">>}, <<>>, {})
   EXCEPT !.on_error = <<"fail", "continue", "skip_branch", "fail">>,
          !.settings = [s \in Settings |-> IF s = "WORKFLOW_MAX_PARALLEL_NODES" THEN 1 ELSE 3],
          !.requests = {"stop"}, !.faults = {"deadline"}]

\* The same at once, with room enough, and a cancellation of the run.
SideBySide ==
  [Parallel EXCEPT !.settings = [s \in Settings |-> IF s = "WORKFLOW_MAX_PARALLEL_NODES"
                                                    THEN 2 ELSE 8],
                   !.requests = {"cancel"}, !.faults = {"interrupt"}]

\* A loop over 2 and 3, closed by the condition 3, with 4 behind it; the cap is
\* one execution short of every round of the loop.
LoopEdgesBack == <<<<3, 2>>>>
Loop ==
  [Workflow(1..4, {<<1, 2, "">>, <<2, 3, "">>, <<3, 4, "">>}, LoopEdgesBack, {3})
   EXCEPT !.on_error = [n \in 1..4 |-> "continue"],
          !.settings = [s \in Settings |-> IF s = "WORKFLOW_MAX_PARALLEL_NODES" THEN 2 ELSE 7],
          !.requests = {"pause", "resume"}, !.faults = {"engine"}]

Workflows == {Branch, Parallel, SideBySide, Loop}

\* A chain that clients pause.
Chain == Workflow(1..3, {<<1, 2, "">>, <<2, 3, "">>}, <<>>, {})
PausedChain == {[Chain EXCEPT !.requests = {"pause", "resume"}]}

=============================================================================
