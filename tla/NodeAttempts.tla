----------------------------- MODULE NodeAttempts -----------------------------
(***************************************************************************)
(* The nodes of one execution that run at the same time: the attempts of     *)
(* engine.py _run_node(), the executors of runtime.py and nodes/, and the    *)
(* NodeContext they share.  Four kinds of actors: the engine's task of a     *)
(* node, the task asyncio.wait_for() wraps around its executor (as it does   *)
(* on the Python 3.11 of the image), the worker threads and processes the    *)
(* executor starts, and the clock.  Between the end of the executor's task   *)
(* and the moment the engine's task reads the outcome, other tasks may run.  *)
(***************************************************************************)
EXTENDS Integers, Sequences, FiniteSets, SequencesExt

CONSTANTS Nodes,          \* nodes that run at the same time
          Plans,          \* functions from Nodes to what the node does
          MaxAttempts,    \* the retry policy
          None

AttemptsAssumption ==
    /\ MaxAttempts \in Nat \ {0}
    /\ None \notin Nat /\ None \notin Seq(Nodes \X Nat)

VARIABLES
    does,           \* does[n], the type of node n
    task,           \* task[n], the engine's task of node n
    context,        \* the NodeContext: last metrics, last branches, a variable
    threads,        \* worker threads under way
    processes,      \* JavaScript and shell processes under way
    file, outbox,   \* what the threads work on: a file, mail sent, rows stored
    table,
    stopping,       \* the stop event of the execution
    runs            \* history: increments executed

vars == <<does, task, context, threads, processes, file, outbox, table, stopping, runs>>

world == <<file, outbox, table>>

-----------------------------------------------------------------------------
(* Errors and what they mean for a retry.                                    *)

(* What an executor makes of an exception of the system.                     *)
FileError(exception) == IF exception = "FileNotFoundError" THEN "not_found" ELSE "runtime"
EmailError(exception) == "network"
DatabaseError(exception) == "runtime"

(* classify_exception(): an error of the application has a code of its own.  *)
OwnCode == [TimeoutError |-> "timeout", ValidationError |-> "validation",
            SecurityError |-> "permission", NodeDisabledError |-> "disabled"]

classify_exception(n, exception) ==
    IF exception \in DOMAIN OwnCode THEN OwnCode[exception]
    ELSE CASE does[n] \in {"append", "write", "read", "delete"} -> FileError(exception)
           [] does[n] = "email" -> EmailError(exception)
           [] does[n] = "sql" -> DatabaseError(exception)
           [] OTHER -> "runtime"

is_retryable(code) ==
    code \in {"timeout", "network", "provider", "rate_limit", "runtime", "unknown"}

-----------------------------------------------------------------------------
(* Executors that do not wait: a step of the executor's task.                *)

(* StartNode.run(): a variable that is set already stays.                    *)
StartNode(c, n) == [c EXCEPT !.count = IF @ = None THEN 0 ELSE @]

Count(c) == IF c.count = None THEN 0 ELSE c.count

(* VariableNode.run(), increment: read, add, store, without a wait between.  *)
VariableNode(c, n) == [c EXCEPT !.count = Count(c) + 1]

(* ConditionNode.run(): the branch its comparison chooses.                   *)
ConditionNode(c) == IF Count(c) > 0 THEN "true" ELSE "false"

(* EndNode.run(): the result variable.                                       *)
EndNode(c, n) == [c EXCEPT !.result = Count(c)]

Immediate == {"start", "increment", "condition", "end"}

-----------------------------------------------------------------------------
(* Executors that hand their work to a thread: its steps.                    *)

Program(kind) ==
    CASE kind = "append" -> <<"append", "size">>
      [] kind = "write" -> <<"truncate", "fill", "size">>
      [] kind = "read" -> <<"find", "read", "size">>
      [] kind = "delete" -> <<"exists", "unlink">>
      [] kind = "email" -> <<"connect", "send">>
      [] kind = "sql" -> <<"execute", "commit">>
      [] OTHER -> <<>>

InThread == {"append", "write", "read", "delete", "email", "sql"}

Line(t) == <<t.node, t.attempt>>
Lines == IF file = None THEN <<>> ELSE file

Proceed(t, more) ==
    /\ threads' = (threads \ {t}) \cup {[t EXCEPT !.pc = @ + 1, !.saw = more]}
    /\ UNCHANGED <<context, processes, stopping, does, task, runs>>

Raise(t, exception) ==
    /\ threads' = (threads \ {t}) \cup {[t EXCEPT !.pc = 99, !.saw = exception]}
    /\ UNCHANGED <<context, processes, stopping, does, task, runs, world>>

At(t, step) == t.pc \in DOMAIN Program(does[t.node]) /\ Program(does[t.node])[t.pc] = step

(* Mistake: the file is opened for writing instead of for appending.         *)
Appended_anew(t) == <<Line(t)>>

Appended(t) == Append(Lines, Line(t))

(* FileNode._run_sync(): append, write, read, delete.                        *)
FileStep(t) ==
    \/ At(t, "append") /\ file' = Appended(t) /\ Proceed(t, None) /\ UNCHANGED <<outbox, table>>
    \/ At(t, "truncate") /\ file' = <<>> /\ Proceed(t, None) /\ UNCHANGED <<outbox, table>>
    \/ At(t, "fill") /\ Proceed(t, None) /\ UNCHANGED <<outbox, table>>
       /\ file' = IF file = None THEN None ELSE <<Line(t)>>
    \/ (At(t, "find") \/ At(t, "read") \/ At(t, "size")) /\ file # None
       /\ Proceed(t, None) /\ UNCHANGED world
    \/ At(t, "exists") /\ Proceed(t, file # None) /\ UNCHANGED world
    \/ At(t, "unlink") /\ (t.saw => file # None) /\ Proceed(t, None) /\ UNCHANGED <<outbox, table>>
       /\ file' = IF t.saw THEN None ELSE file

(* The file is gone when the step needs it; a path that leads nowhere from   *)
(* the start is refused by resolve_media_path().                             *)
FileMissing(t) ==
    /\ At(t, "find") \/ At(t, "read") \/ At(t, "size") \/ (At(t, "unlink") /\ t.saw)
    /\ file = None
    /\ Raise(t, IF At(t, "find") THEN "ValidationError" ELSE "FileNotFoundError")

(* EmailNode._send_sync(): one conversation with the server, which may break *)
(* before or after the message was taken.                                    *)
EmailStep(t) ==
    \/ At(t, "connect") /\ Proceed(t, None) /\ UNCHANGED world
    \/ At(t, "send") /\ outbox' = Append(outbox, Line(t)) /\ UNCHANGED <<file, table>>
       /\ threads' \in {(threads \ {t}) \cup {[t EXCEPT !.pc = @ + 1]},
                        (threads \ {t}) \cup {[t EXCEPT !.pc = 99, !.saw = "OSError"]}}
       /\ UNCHANGED <<context, processes, stopping, does, task, runs>>

(* Mistake: a statement is stored as it is executed.                         *)
Stores_at_once(t) == At(t, "execute")

Stores(t) == At(t, "commit")

(* DatabaseNode._run_sync(): nothing is stored before the commit.            *)
DatabaseStep(t) ==
    /\ At(t, "execute") \/ At(t, "commit")
    /\ table' = IF Stores(t) THEN table \cup {Line(t)} ELSE table
    /\ Proceed(t, None)
    /\ UNCHANGED <<file, outbox>>

(* Any step that touches the system may fail before it did anything.         *)
ThreadFails(t) ==
    /\ \/ At(t, "append") \/ At(t, "truncate") \/ At(t, "read")
       \/ At(t, "connect") \/ At(t, "execute") \/ At(t, "commit")
    /\ Raise(t, "OSError")

-----------------------------------------------------------------------------
(* The engine's task of a node.                                              *)

Is(n, stage) == task[n].stage = stage
Set(n, stage) == task' = [task EXCEPT ![n].stage = stage]

(* The next attempt: drop what the last node left in the context, and start  *)
(* the executor.                                                             *)
Attempt(n) ==
    /\ Is(n, "ready")
    /\ context' = [context EXCEPT !.metrics = None, !.branches = None]
    /\ task' = [task EXCEPT ![n].stage = "started", ![n].attempt = @ + 1,
                            ![n].seen = Count(context)]
    /\ UNCHANGED <<does, threads, processes, world, stopping, runs>>

(* execute(): the executor's task is through, its metrics and branches wait  *)
(* in the context.                                                           *)
Deliver(n, c) ==
    LET branch == IF does[n] = "condition" THEN ConditionNode(c) ELSE None
    IN /\ context' = [c EXCEPT !.metrics = n, !.branches = IF branch = None THEN @ ELSE branch]
       /\ task' = [task EXCEPT ![n].stage = "done", ![n].output = branch]

RunImmediate(n) ==
    /\ Is(n, "started") /\ does[n] \in Immediate
    /\ Deliver(n, CASE does[n] = "start" -> StartNode(context, n)
                    [] does[n] = "increment" -> VariableNode(context, n)
                    [] does[n] = "end" -> EndNode(context, n)
                    [] OTHER -> context)
    /\ runs' = IF does[n] = "increment" THEN runs + 1 ELSE runs
    /\ UNCHANGED <<does, threads, processes, world, stopping>>

Mine(n) == {t \in threads : t.node = n /\ t.attempt = task[n].attempt}
Finished(t) == t.pc > Len(Program(does[t.node]))

Left(n) == task[n].attempt < MaxAttempts

Failing(n, exception) ==
    LET code == classify_exception(n, exception)
        again == Left(n) /\ is_retryable(code)
    IN task' = [task EXCEPT ![n].stage = IF again THEN "ready" ELSE "failed",
                            ![n].codes = Append(@, code)]

(* execute_result(): the configuration is refused before run() is called.    *)
Refused(n) ==
    /\ Is(n, "started") /\ does[n] = "refused"
    /\ \E exception \in {"ValidationError", "SecurityError", "NodeDisabledError"} :
          Failing(n, exception)
    /\ UNCHANGED <<does, context, threads, processes, world, stopping, runs>>

(* run() of the file, e-mail and database nodes: a thread is started.        *)
RunInThread(n) ==
    /\ Is(n, "started") /\ does[n] \in InThread
    /\ threads' = threads \cup {[node |-> n, attempt |-> task[n].attempt, pc |-> 1, saw |-> None]}
    /\ Set(n, "waiting")
    /\ UNCHANGED <<does, context, processes, world, stopping, runs>>

(* JavaScriptNode.run(), CommandExecutor.execute(): a process is started.    *)
RunProcess(n) ==
    /\ Is(n, "started") /\ does[n] = "script"
    /\ processes' = processes \cup {<<n, task[n].attempt>>}
    /\ Set(n, "waiting")
    /\ UNCHANGED <<does, context, threads, world, stopping, runs>>

(* DelayNode.run(): wait for the stop event or the clock.                    *)
RunDelay(n) ==
    /\ Is(n, "started") /\ does[n] = "delay"
    /\ Set(n, "waiting")
    /\ UNCHANGED <<does, context, threads, processes, world, stopping, runs>>

(* The thread is through and the executor's task goes on.                    *)
ThreadAnswers(n) ==
    /\ Is(n, "waiting")
    /\ \E t \in Mine(n) :
          /\ Finished(t)
          /\ threads' = threads \ {t}
          /\ IF t.pc = 99 THEN Failing(n, t.saw) /\ UNCHANGED context ELSE Deliver(n, context)
    /\ UNCHANGED <<does, processes, world, stopping, runs>>

ProcessAnswers(n) ==
    /\ Is(n, "waiting") /\ <<n, task[n].attempt>> \in processes
    /\ processes' = processes \ {<<n, task[n].attempt>>}
    /\ Deliver(n, context) \/ (Failing(n, "RuntimeError") /\ UNCHANGED context)
    /\ UNCHANGED <<does, threads, world, stopping, runs>>

(* The node's own time limit: the process is killed and waited for.          *)
ProcessKilled(n) ==
    /\ Is(n, "waiting") /\ <<n, task[n].attempt>> \in processes
    /\ processes' = processes \ {<<n, task[n].attempt>>}
    /\ Failing(n, "TimeoutError")
    /\ UNCHANGED <<does, context, threads, world, stopping, runs>>

(* Mistake: the delay sleeps through a stop.                                 *)
Woken_asleep == FALSE

Woken == stopping

DelayEnds(n) ==
    /\ Is(n, "waiting") /\ does[n] = "delay" /\ Woken
    /\ Deliver(n, context)
    /\ UNCHANGED <<does, threads, processes, world, stopping, runs>>

DelayElapses(n) ==
    /\ Is(n, "waiting") /\ does[n] = "delay"
    /\ Deliver(n, context)
    /\ UNCHANGED <<does, threads, processes, world, stopping, runs>>

(* wait_for() runs out: the executor's task is cancelled, its thread or      *)
(* process goes on alone.                                                    *)
TimesOut(n) ==
    /\ Is(n, "waiting")
    /\ Failing(n, "TimeoutError")
    /\ UNCHANGED <<does, context, threads, processes, world, stopping, runs>>

(* A thread nobody waits for any more comes to its end.                      *)
ThreadEnds(t) ==
    /\ Finished(t) /\ ~(Is(t.node, "waiting") /\ t \in Mine(t.node))
    /\ threads' = threads \ {t}
    /\ UNCHANGED <<does, task, context, processes, world, stopping, runs>>

ProcessEnds(p) ==
    /\ ~(Is(p[1], "waiting") /\ task[p[1]].attempt = p[2])
    /\ processes' = processes \ {p}
    /\ UNCHANGED <<does, task, context, threads, world, stopping, runs>>

(* The engine's task resumes and takes metrics and branches out of the       *)
(* context; a condition whose branches are gone falls back to its output.    *)
Resume(n) ==
    /\ Is(n, "done")
    /\ task' = [task EXCEPT ![n].stage = "completed", ![n].metrics = context.metrics,
                            ![n].branches = IF context.branches = None THEN task[n].output
                                            ELSE context.branches]
    /\ context' = [context EXCEPT !.metrics = None, !.branches = None]
    /\ UNCHANGED <<does, threads, processes, world, stopping, runs>>

(* The engine cancels the task (another node failed): no further attempt.    *)
Cancelled(n) ==
    /\ task[n].stage \in {"ready", "started", "waiting", "done"}
    /\ Set(n, "cancelled")
    /\ UNCHANGED <<does, context, threads, processes, world, stopping, runs>>

Stop ==
    /\ ~stopping /\ stopping' = TRUE
    /\ UNCHANGED <<does, task, context, threads, processes, world, runs>>

-----------------------------------------------------------------------------
Init ==
    /\ does \in Plans
    /\ task = [n \in Nodes |-> [stage |-> "ready", attempt |-> 0, codes |-> <<>>, seen |-> 0, output |-> None,
                                metrics |-> None, branches |-> None]]
    /\ context = [metrics |-> None, branches |-> None, count |-> None, result |-> None]
    /\ threads = {} /\ processes = {}
    /\ file \in {None, <<>>} /\ outbox = <<>> /\ table = {}
    /\ stopping = FALSE /\ runs = 0

NodeSteps(n) ==
    Attempt(n) \/ RunImmediate(n) \/ Refused(n) \/ RunInThread(n) \/ RunProcess(n) \/ RunDelay(n)
    \/ ThreadAnswers(n) \/ DelayEnds(n) \/ Resume(n)

Clock(n) == ProcessAnswers(n) \/ ProcessKilled(n) \/ DelayElapses(n) \/ TimesOut(n) \/ Cancelled(n)

Work(t) == FileStep(t) \/ FileMissing(t) \/ EmailStep(t) \/ DatabaseStep(t) \/ ThreadFails(t)

Next ==
    \/ Stop
    \/ \E n \in Nodes : NodeSteps(n) \/ Clock(n)
    \/ \E t \in threads : Work(t) \/ ThreadEnds(t)
    \/ \E p \in processes : ProcessEnds(p)

(* The event loop runs what is ready; nothing is asked of clock and threads. *)
Spec == Init /\ [][Next]_vars /\ \A n \in Nodes : WF_vars(NodeSteps(n))

-----------------------------------------------------------------------------
Over(n) == task[n].stage \in {"completed", "failed", "cancelled"}

TypeOK ==
    /\ \A n \in Nodes : task[n].attempt \in 0..MaxAttempts /\ Len(task[n].codes) <= MaxAttempts
    /\ \A t \in threads : t.attempt \in 1..task[t.node].attempt
    /\ runs \in Nat

(* Increments of one variable by nodes that run at the same time all count.  *)
IncrementsCount ==
    (\E n \in Nodes : does[n] = "increment") => Count(context) = runs

(* FileNode: nodes that append to one file at the same time lose none of     *)
(* each other's lines; each attempt adds at most one.                        *)
AppendsKept ==
    (\A n \in Nodes : does[n] \in {"append", "email"}) =>
        \A n \in Nodes : does[n] = "append" /\ task[n].stage = "completed" =>
            Cardinality({i \in DOMAIN Lines : Lines[i][1] = n}) \in 1..task[n].attempt

(* DatabaseNode and the retries of _run_node(): without a time-out a node    *)
(* stores its row at most once however often it is tried, and a completed    *)
(* node has stored it.                                                       *)
RowsStoredOnce ==
    \A n \in Nodes : does[n] = "sql" =>
        LET rows == Cardinality({row \in table : row[1] = n})
        IN /\ "timeout" \notin ToSet(task[n].codes) => rows <= 1
           /\ task[n].stage = "completed" => rows >= 1

(* A permanent error ends the node: whatever came before it was worth a      *)
(* retry, and no attempt follows it.                                         *)
PermanentIsFinal ==
    \A n \in Nodes : \A i \in DOMAIN task[n].codes :
        task[n].codes[i] \in {"validation", "permission", "not_found", "disabled"} =>
            i = Len(task[n].codes) /\ task[n].attempt = i

-----------------------------------------------------------------------------
(* The inductive invariant: how far a node and its threads are, and which    *)
(* lines and rows they have left behind by then.                             *)

Stages == {"ready", "started", "waiting", "done", "completed", "failed", "cancelled"}

Codes == {"timeout", "network", "runtime", "validation", "permission", "not_found", "disabled"}

Permanent == {"validation", "permission", "not_found", "disabled"}

Branches == {None, "true", "false"}

Task == [stage: Stages, attempt: 0..MaxAttempts, codes: Seq(Codes), seen: Nat,
         output: Branches, metrics: Nodes \cup {None}, branches: Branches]

Context == [metrics: Nodes \cup {None}, branches: Branches, count: Nat \cup {None},
            result: Nat \cup {None}]

(* A thread works for an attempt that has been made, along its program, and  *)
(* is the only one of its attempt.                                           *)
ThreadTyped(t) ==
    /\ t = [node |-> t.node, attempt |-> t.attempt, pc |-> t.pc, saw |-> t.saw]
    /\ t.node \in Nodes /\ does[t.node] \in InThread
    /\ t.attempt \in 1..task[t.node].attempt
    /\ t.pc \in 1..(Len(Program(does[t.node])) + 1) \cup {99}

OneEach == \A t, u \in threads : t.node = u.node /\ t.attempt = u.attempt => t = u

Typed ==
    /\ task \in [Nodes -> Task] /\ context \in Context
    /\ \A t \in threads : ThreadTyped(t)
    /\ OneEach
    /\ \A p \in processes : p \in Nodes \X Nat /\ does[p[1]] = "script"
    /\ runs \in Nat /\ Count(context) = runs

(* A code for every attempt that failed; only the last can be permanent, and *)
(* only that of a node that failed.                                          *)
CodesInStep(n) == LET failures == Len(task[n].codes) IN
    /\ Is(n, "ready") \/ Is(n, "failed") => failures = task[n].attempt
    /\ task[n].stage \in {"started", "waiting", "done", "completed"} =>
          failures = task[n].attempt - 1
    /\ Is(n, "cancelled") => failures \in {task[n].attempt - 1, task[n].attempt}
    /\ Is(n, "ready") => task[n].attempt < MaxAttempts
    /\ \A i \in 1..failures :
          task[n].codes[i] \in Permanent => Is(n, "failed") /\ i = failures

(* An attempt that has only begun has no thread yet.                         *)
NotYet(n) == Is(n, "started") => \A t \in Mine(n) : FALSE

(* Nodes that only append: the lines in the file are those of the attempts   *)
(* whose threads came past their first step, each of them once.              *)
AllAppend == \A n \in Nodes : does[n] \in {"append", "email"}

Written(line) == \E i \in DOMAIN Lines : Lines[i] = line

LinesInStep ==
    /\ file \in Seq(Nodes \X Nat) \cup {None}
    /\ \A i \in DOMAIN Lines : Lines[i][2] \in 1..task[Lines[i][1]].attempt
    /\ \A i, j \in DOMAIN Lines : Lines[i] = Lines[j] => i = j
    /\ \A t \in threads : does[t.node] = "append" =>
          /\ t.pc = 1 => ~Written(Line(t))
          /\ t.pc \in {2, 3} => Written(Line(t))
    /\ \A n \in Nodes :
          /\ Is(n, "started") => ~Written(<<n, task[n].attempt>>)
          /\ does[n] = "append" /\ (Is(n, "done") \/ Is(n, "completed")) =>
                Written(<<n, task[n].attempt>>)

(* A row is in the table from the commit on; a node that never timed out has *)
(* no thread and no row but those of its last attempt.                       *)
RowsTyped == IsFiniteSet(table) /\ table \subseteq Nodes \X Nat

RowsOfThreads ==
    \A t \in threads : does[t.node] = "sql" => (Line(t) \in table <=> t.pc = 3)

RowsInStep(n) ==
    /\ Is(n, "done") \/ Is(n, "completed") => <<n, task[n].attempt>> \in table
    /\ \A row \in table : row[1] = n => row[2] \in 1..task[n].attempt
    /\ Is(n, "started") => <<n, task[n].attempt>> \notin table
    /\ "timeout" \notin ToSet(task[n].codes) =>
          /\ \A t \in threads : t.node = n =>
                t.attempt = task[n].attempt /\ (Is(n, "waiting") \/ Is(n, "cancelled"))
          /\ \A row \in table : row[1] = n =>
                /\ row[2] = task[n].attempt
                /\ task[n].stage \in {"waiting", "done", "completed", "cancelled"}

AttemptsInv ==
    /\ Typed
    /\ \A n \in Nodes : CodesInStep(n) /\ NotYet(n)
    /\ AllAppend => LinesInStep
    /\ RowsTyped /\ RowsOfThreads
    /\ \A n \in Nodes : does[n] = "sql" => RowsInStep(n)

-----------------------------------------------------------------------------
StoppedDelay(n) == stopping /\ does[n] = "delay" /\ Is(n, "waiting")

(* A stop wakes a node that only waits.                                      *)
StopWakesDelays == \A n \in Nodes : StoppedDelay(n) ~> Over(n)

=============================================================================
