-------------------------- MODULE MCEngineAndMedia --------------------------
(***************************************************************************)
(* What runs with the engine: the attempts of the nodes of an execution, the *)
(* sandbox of the script nodes, the first scheduler, the log of an execution *)
(* and the media pipeline.  They share no state that the models follow, so   *)
(* each behaviour explores one of them, chosen in the initial state; the     *)
(* variables of the others keep the value Unused.                            *)
(***************************************************************************)
EXTENDS Integers, Sequences, FiniteSets, SequencesExt

CONSTANTS None, Unused,
          Nodes, Pairs, MaxAttempts, Attempts, Scripts, Quota,
          Clients, Asks, MaxWorkers, MaxAssets, MaxJobs, MaxRequests,
          Plans, MaxRuns, Loop, Requests, BatchSize, MaxLines

VARIABLES picked,
          does, task, context, threads, processes, file, outbox, table, stopping, runs,
          script, node, thread, child, workdir, invocations, started,
          assets, jobs, files, queued, working, futures, req, told, asked, mode,
          plan, at, submitted, interrupted, completed, failed, skipped, fail_fast, flight, attempt,
          row, status, summary,
          pending, logged, flush, rows, lost, finished, overlapped

retries == <<does, task, context, threads, processes, file, outbox, table, stopping, runs>>
sandbox == <<script, node, thread, child, workdir, invocations, started>>
media == <<assets, jobs, files, queued, working, futures, req, told, asked, mode>>
v1 == <<plan, at, submitted, interrupted, completed, failed, skipped, fail_fast, flight, attempt,
        row, status, summary>>
log == <<pending, logged, flush, rows, lost, finished, overlapped>>
vars == <<picked, retries, sandbox, media, v1, log>>

-----------------------------------------------------------------------------
(* Nodes that meet in the context, in the file, or in their retries.         *)
MCPairs ==
    {<<"start", "increment">>, <<"increment", "increment">>, <<"condition", "increment">>,
     <<"end", "refused">>, <<"append", "append">>, <<"read", "delete">>,
     <<"write", "increment">>, <<"sql", "delay">>, <<"email", "end">>, <<"script", "refused">>}

(* Uploads, edits, deletions and jobs of one asset.                          *)
MediaAsk(op, process, wait) == [op |-> op, asset |-> 1, process |-> process, wait |-> wait]

MCAsks == {MediaAsk("upload", TRUE, TRUE), MediaAsk("update", FALSE, FALSE),
              MediaAsk("delete", FALSE, FALSE), MediaAsk("process", TRUE, FALSE),
              MediaAsk("node", TRUE, TRUE)}

(* Runs of a diamond, of a fork, of a chain beside a node of its own, and a  *)
(* graph that goes round.                                                    *)
Plan(edgelist, policies, faults) ==
    [nodes |-> 1..4, edges |-> edgelist, on_error |-> policies, max_retries |-> <<1, 2, 1, 1>>,
     max_parallel |-> 2, faults |-> faults]

Diamond == {<<1, 2>>, <<1, 3>>, <<2, 4>>, <<3, 4>>}
Fork == {<<1, 2>>, <<2, 3>>, <<1, 4>>}

MCPlans ==
    {Plan(Diamond, <<"fail", "continue", "skip_branch", "fail">>, {"cancel"}),
     Plan(Diamond, <<"skip_branch", "fail", "continue", "fail">>, {}),
     Plan(Fork, <<"continue", "skip_branch", "fail", "fail">>, {"cancel"}),
     Plan({<<1, 2>>, <<2, 4>>}, <<"fail", "skip_branch", "fail", "continue">>, {}),
     Plan({<<1, 2>>, <<2, 4>>}, <<"fail", "fail", "continue", "fail">>, {"store", "graph"}),
     Plan({<<1, 2>>, <<2, 1>>}, <<"fail", "fail", "fail", "fail">>, {"cancel"})}

A == INSTANCE NodeAttempts WITH Plans <- Pairs
S == INSTANCE ScriptSandbox
P == INSTANCE MediaPipeline
V == INSTANCE SchedulerV1 WITH task <- flight
L == INSTANCE ExecutionLog

ASSUME EngineAndMediaAssumption ==
    A!AttemptsAssumption /\ S!SandboxAssumption /\ P!MediaAssumption /\ V!V1Assumption /\ L!LogAssumption

-----------------------------------------------------------------------------
NoRetries ==
    /\ does = Unused /\ task = Unused /\ context = Unused /\ threads = Unused
    /\ processes = Unused /\ file = Unused /\ outbox = Unused /\ table = Unused
    /\ stopping = Unused /\ runs = Unused

NoSandbox ==
    /\ script = Unused /\ node = Unused /\ thread = Unused /\ child = Unused
    /\ workdir = Unused /\ invocations = Unused /\ started = Unused

NoMedia ==
    /\ assets = Unused /\ jobs = Unused /\ files = Unused /\ queued = Unused
    /\ working = Unused /\ futures = Unused /\ req = Unused /\ told = Unused
    /\ asked = Unused /\ mode = Unused

NoV1 ==
    /\ plan = Unused /\ at = Unused /\ submitted = Unused /\ interrupted = Unused
    /\ completed = Unused /\ failed = Unused /\ skipped = Unused /\ fail_fast = Unused
    /\ flight = Unused /\ attempt = Unused /\ row = Unused /\ status = Unused /\ summary = Unused

NoLog ==
    /\ pending = Unused /\ logged = Unused /\ flush = Unused /\ rows = Unused
    /\ lost = Unused /\ finished = Unused /\ overlapped = Unused

Init ==
    \/ picked = "attempts" /\ A!Init /\ NoSandbox /\ NoMedia /\ NoV1 /\ NoLog
    \/ picked = "sandbox" /\ S!Init /\ NoRetries /\ NoMedia /\ NoV1 /\ NoLog
    \/ picked = "media" /\ P!Init /\ NoRetries /\ NoSandbox /\ NoV1 /\ NoLog
    \/ picked = "v1" /\ V!Init /\ NoRetries /\ NoSandbox /\ NoMedia /\ NoLog
    \/ picked = "log" /\ L!Init /\ NoRetries /\ NoSandbox /\ NoMedia /\ NoV1

NextRetries == picked = "attempts" /\ A!Next /\ UNCHANGED <<picked, sandbox, media, v1, log>>
NextSandbox == picked = "sandbox" /\ S!Next /\ UNCHANGED <<picked, retries, media, v1, log>>
NextMedia == picked = "media" /\ P!Next /\ UNCHANGED <<picked, retries, sandbox, v1, log>>
NextV1 == picked = "v1" /\ V!Next /\ UNCHANGED <<picked, retries, sandbox, media, log>>
NextLog == picked = "log" /\ L!Next /\ UNCHANGED <<picked, retries, sandbox, media, v1>>

Next == NextRetries \/ NextSandbox \/ NextMedia \/ NextV1 \/ NextLog

(* The fairness of the components' own specifications.  A pool of one thread *)
(* either can take a job or is at work on one, so one condition covers both. *)
NodeLoop(n) == picked = "attempts" /\ A!NodeSteps(n) /\ UNCHANGED <<picked, sandbox, media, v1, log>>
Thread(a) == picked = "sandbox" /\ S!Thread(a) /\ UNCHANGED <<picked, retries, media, v1, log>>
Go == picked = "v1" /\ V!Step /\ UNCHANGED <<picked, retries, sandbox, media, log>>
Work ==
    /\ picked = "media" /\ (P!Take \/ \E j \in 1..MaxJobs : P!Thread(j))
    /\ UNCHANGED <<picked, retries, sandbox, v1, log>>

Spec ==
    /\ Init /\ [][Next]_vars
    /\ \A n \in Nodes : WF_vars(NodeLoop(n))
    /\ \A a \in Attempts : WF_vars(Thread(a))
    /\ WF_vars(Go \/ Work)

-----------------------------------------------------------------------------
(* What parallel nodes share through the context and the file loses nothing: *)
(* no increment of VariableNode and no line of FileNode is overwritten.      *)
SharedStateKept ==
    picked = "attempts" => A!TypeOK /\ A!IncrementsCount /\ A!AppendsKept

(* _run_node(): retries store the row of a DatabaseNode once, also beside a  *)
(* thread whose time is over, and none follows a permanent error.            *)
RetriesSound == picked = "attempts" => A!RowsStoredOnce /\ A!PermanentIsFinal

(* run_python_sandboxed(): a script runs behind all its guards and within    *)
(* its quota; its verdict is what became of the child; nothing is left.      *)
ScriptsContained ==
    picked = "sandbox" =>
        /\ S!TypeOK
        /\ S!NothingLeftBehind
        /\ S!GuardsFirst
        /\ S!VerdictIsRight
        /\ S!QuotaHolds

(* MediaPipeline: the asset is marked before its job is COMPLETED, _futures  *)
(* holds the jobs under way, and a node does not report a failed job as done. *)
JobsTellTruth ==
    picked = "media" =>
        /\ P!TypeOK
        /\ P!MarkedBeforeCompleted
        /\ P!FuturesMatch
        /\ P!NodeTellsTruth

(* run_execution: a completed run is whole, only what lies below a failure   *)
(* is skipped, and the lists of nodes agree with the nodes' rows.            *)
OutcomesSound ==
    picked = "v1" =>
        /\ V!TypeOK
        /\ V!VerdictIsWhole
        /\ V!SkippedBelowFailures
        /\ V!RowsMatchLists

(* flush_logs(), finish(): a line is in one place at any time, lines are     *)
(* numbered as they were written, and the end of a run leaves none pending.  *)
LogIsWhole ==
    picked = "log" =>
        /\ L!TypeOK
        /\ L!EveryLineOnce
        /\ L!NumberedAsLogged
        /\ L!FinishedIsFlushed

(* A stop ends the delay of a node, every script ends, every job of the pool *)
(* is done, also during a shutdown, and every submitted run comes to an end. *)
(* In each behaviour one of the four is what the actor i waits for.          *)
Waiting(i) ==
    \/ picked = "attempts" /\ i \in Nodes /\ A!StoppedDelay(i)
    \/ picked = "sandbox" /\ i \in Attempts /\ S!Busy(i)
    \/ picked = "media" /\ i \in 1..MaxJobs /\ P!Running(i)
    \/ picked = "v1" /\ at # "idle"

Through(i) ==
    \/ picked = "attempts" /\ A!Over(i)
    \/ picked = "sandbox" /\ ~S!Busy(i)
    \/ picked = "media" /\ ~P!Running(i)
    \/ picked = "v1" /\ at = "idle"

WaitsEnd == \A i \in Nodes \cup Attempts \cup 1..MaxJobs : Waiting(i) ~> Through(i)

=============================================================================
