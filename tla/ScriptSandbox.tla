---------------------------- MODULE ScriptSandbox ----------------------------
(***************************************************************************)
(* The Python node of data_nodes.py and the process sandbox it runs scripts  *)
(* in (sandbox.py).  An attempt of a node starts a worker thread, the thread *)
(* a child process; node, thread and child are three actors, and the node    *)
(* may give up (time limit, cancelled run) while the other two go on.        *)
(***************************************************************************)
EXTENDS Integers, FiniteSets

CONSTANTS Attempts,       \* attempts of script nodes of one execution
          Scripts,        \* what a script does
          Quota           \* SCRIPT_EXECUTION_QUOTA_PER_RUN, 0 for none

SandboxAssumption ==
    /\ Quota \in Nat /\ IsFiniteSet(Attempts)
    /\ Scripts \subseteq {"fine", "raises", "syntax", "forbidden", "nested", "grows",
                          "spins", "sleeps"}

VARIABLES
    script,         \* script[a], what attempt a runs
    node,           \* node[a]: "idle", "waiting", "given_up" or an error code
    thread,         \* thread[a], where run_python_sandboxed() is
    child,          \* child[a], the child process
    workdir,        \* attempts whose working directory exists
    invocations,    \* context["__script_invocations__"]
    started         \* history: attempts that got past the quota

vars == <<script, node, thread, child, workdir, invocations, started>>

-----------------------------------------------------------------------------
(* The node.                                                                 *)

_check_quota(used) == Quota = 0 \/ used <= Quota

(* run() up to the worker thread.                                            *)
Run(a) ==
    /\ node[a] = "idle"
    /\ invocations' = IF Quota = 0 THEN invocations ELSE invocations + 1
    /\ IF _check_quota(invocations + 1)
       THEN /\ node' = [node EXCEPT ![a] = "waiting"]
            /\ thread' = [thread EXCEPT ![a] = "start"]
            /\ started' = started \cup {a}
       ELSE /\ node' = [node EXCEPT ![a] = "permission"]
            /\ UNCHANGED <<thread, started>>
    /\ UNCHANGED <<script, child, workdir>>

(* The time limit of the node or the end of the run: the thread goes on.     *)
GiveUp(a) ==
    /\ node[a] = "waiting"
    /\ node' = [node EXCEPT ![a] = "given_up"]
    /\ UNCHANGED <<script, thread, child, workdir, invocations, started>>

(* _run_sandboxed(): what the outcome of the sandbox means for the node.     *)
_run_sandboxed(outcome) ==
    CASE outcome = "ok" -> "completed"
      [] outcome = "Timeout" -> "timeout"
      [] outcome \in {"PermissionError", "ImportError"} -> "permission"
      [] outcome = "SyntaxError" -> "validation"
      [] OTHER -> "runtime"

-----------------------------------------------------------------------------
(* The worker thread, run_python_sandboxed().                                *)

NoChild == [stage |-> "none", payload |-> "none", exit |-> 0, guards |-> {}]

Alive(a) == child[a].stage \notin {"none", "exited"}

Spawn(a) ==
    /\ thread[a] = "start"
    /\ workdir' = workdir \cup {a}
    /\ child' = [child EXCEPT ![a].stage = "_limits"]
    /\ thread' = [thread EXCEPT ![a] = "communicate"]
    /\ UNCHANGED <<script, node, invocations, started>>

(* The thread is through: the node gets its outcome if it still waits.       *)
Return(a, outcome) ==
    /\ thread' = [thread EXCEPT ![a] = outcome]
    /\ node' = [node EXCEPT ![a] = IF @ = "waiting" THEN _run_sandboxed(outcome) ELSE @]

(* mkdtemp() has happened, Popen() fails.                                    *)
SpawnFails(a) ==
    /\ thread[a] = "start"
    /\ Return(a, "SandboxStartError")
    /\ UNCHANGED <<script, child, workdir, invocations, started>>

(* The wall clock runs out: kill the process group, ...                      *)
_kill_process_tree(p) == [p EXCEPT !.stage = "exited", !.exit = -9]

WallTimeout(a) ==
    /\ thread[a] = "communicate"
    /\ thread' = [thread EXCEPT ![a] = "reap"]
    /\ child' = IF Alive(a) THEN [child EXCEPT ![a] = _kill_process_tree(@)] ELSE child
    /\ UNCHANGED <<script, node, workdir, invocations, started>>

(* ... collect what it wrote and remove its directory.                       *)
Reap(a) ==
    /\ thread[a] = "reap" /\ ~Alive(a)
    /\ workdir' = workdir \ {a}
    /\ Return(a, "Timeout")
    /\ UNCHANGED <<script, child, invocations, started>>

(* The verdict on a child that ended by itself.                              *)
Outcome(p) ==
    IF p.exit < 0 \/ p.payload = "none"
    THEN IF p.exit \in {-9, -24, -25, -6} THEN "ResourceLimit" ELSE "SandboxFailure"
    ELSE p.payload

Collect(a) ==
    /\ thread[a] = "communicate" /\ child[a].stage = "exited"
    /\ workdir' = workdir \ {a}
    /\ Return(a, Outcome(child[a]))
    /\ UNCHANGED <<script, child, invocations, started>>

-----------------------------------------------------------------------------
(* The child, _CHILD_BOOTSTRAP.                                              *)

Goto(a, stage, guards) ==
    child' = [child EXCEPT ![a].stage = stage, ![a].guards = @ \cup guards]
Exit(a, payload, code) ==
    child' = [child EXCEPT ![a].stage = "exited", ![a].payload = payload, ![a].exit = code]

(* Resource limits: without the CPU limit the child fails, the others may be *)
(* refused by the system.                                                    *)
_limits(a) ==
    \/ \E applied \in SUBSET {"memory", "file"} : Goto(a, "_socket", {"cpu"} \cup applied)
    \/ Exit(a, "none", 1)

_socket(a) == Goto(a, "_compile", {"network"})

_compile(a) ==
    IF script[a] = "syntax" THEN Exit(a, "SyntaxError", 0) ELSE Goto(a, "_warmup", {})

(* Mistake: the modules are warmed up by the script itself.                  *)
_warmup_early(a) == Goto(a, "_run", {})

_warmup(a) == Goto(a, "_guard", {})

_guard(a) == Goto(a, "_builtins", {"import"})
_builtins(a) == Goto(a, "_hook", {"builtins"})
_hook(a) == Goto(a, "_run", {"hook"})

(* The script under redirected output.  A nested exec() finds the budget of  *)
(* one spent; the script that grows meets the limit or the system's killer.  *)
_run(a) ==
    CASE script[a] = "fine" -> Goto(a, "_report", {})
      [] script[a] = "raises" -> Exit(a, "ValueError", 0)
      [] script[a] \in {"forbidden", "nested"} -> Exit(a, "PermissionError", 0)
      [] script[a] = "grows" -> IF "memory" \in child[a].guards
                                THEN Exit(a, "MemoryError", 0) ELSE Exit(a, "none", -9)
      [] OTHER -> FALSE

(* The result is written; the child may be killed on its way out.            *)
_report(a) == \E code \in {0, -24} : Exit(a, "ok", code)

Bootstrap(a) ==
    /\ \/ child[a].stage = "_limits" /\ _limits(a)
       \/ child[a].stage = "_socket" /\ _socket(a)
       \/ child[a].stage = "_compile" /\ _compile(a)
       \/ child[a].stage = "_warmup" /\ _warmup(a)
       \/ child[a].stage = "_guard" /\ _guard(a)
       \/ child[a].stage = "_builtins" /\ _builtins(a)
       \/ child[a].stage = "_hook" /\ _hook(a)
       \/ child[a].stage = "_run" /\ _run(a)
       \/ child[a].stage = "_report" /\ _report(a)
    /\ UNCHANGED <<script, node, thread, workdir, invocations, started>>

(* The kernel ends a child that computes for ever.                           *)
CpuLimit(a) ==
    /\ child[a].stage = "_run" /\ script[a] = "spins" /\ "cpu" \in child[a].guards
    /\ Exit(a, "none", -24)
    /\ UNCHANGED <<script, node, thread, workdir, invocations, started>>

-----------------------------------------------------------------------------
Init ==
    /\ script \in [Attempts -> Scripts]
    /\ node = [a \in Attempts |-> "idle"] /\ thread = [a \in Attempts |-> "none"]
    /\ child = [a \in Attempts |-> NoChild]
    /\ workdir = {} /\ invocations = 0 /\ started = {}

Thread(a) == Spawn(a) \/ SpawnFails(a) \/ WallTimeout(a) \/ Reap(a) \/ Collect(a)

Next == \E a \in Attempts : Run(a) \/ GiveUp(a) \/ Thread(a) \/ Bootstrap(a) \/ CpuLimit(a)

(* The thread is scheduled and its clock runs; nothing is asked of the child. *)
Spec == Init /\ [][Next]_vars /\ \A a \in Attempts : WF_vars(Thread(a))

-----------------------------------------------------------------------------
Busy(a) == thread[a] \in {"start", "communicate", "reap"}

TypeOK ==
    /\ \A a \in Attempts : node[a] \in {"idle", "waiting", "given_up", "completed", "timeout",
                                        "permission", "validation", "runtime"}
    /\ started \subseteq Attempts /\ workdir \subseteq started
    /\ invocations \in 0..Cardinality(Attempts)

(* When the thread is through, the child is gone and its directory with it,  *)
(* also when the node gave up long before; a child never runs without its    *)
(* directory.                                                                *)
NothingLeftBehind ==
    \A a \in Attempts :
        /\ Alive(a) => a \in workdir /\ Busy(a)
        /\ a \in workdir => Busy(a)

(* The script runs only behind the import guard, the audit hook, the CPU     *)
(* limit and without the removed builtins.                                   *)
GuardsFirst ==
    \A a \in Attempts :
        child[a].stage \in {"_run", "_report"} =>
            {"cpu", "network", "import", "builtins", "hook"} \subseteq child[a].guards

(* A node completes only when its script came to its end and its child ended *)
(* well; a script that was killed, failed or ran too long never counts.      *)
VerdictIsRight ==
    \A a \in Attempts :
        /\ node[a] = "completed" =>
              script[a] = "fine" /\ child[a].payload = "ok" /\ child[a].exit = 0
        /\ node[a] = "validation" => script[a] = "syntax"
        /\ node[a] = "timeout" => thread[a] = "Timeout"

(* No more scripts of an execution run than the quota, attempts of several   *)
(* nodes and repeated attempts taken together.                               *)
QuotaHolds == Quota > 0 => Cardinality(started) <= Quota

-----------------------------------------------------------------------------
(* The inductive invariant: where node, thread and child of an attempt are,  *)
(* what the child has behind it, and what its outcome says of the script.    *)

Stages == {"none", "_limits", "_socket", "_compile", "_warmup", "_guard", "_builtins",
           "_hook", "_run", "_report", "exited"}

Payloads == {"none", "ok", "SyntaxError", "ValueError", "PermissionError", "MemoryError"}

Outcomes == Payloads \cup {"Timeout", "SandboxStartError", "ResourceLimit", "SandboxFailure"}

Child == [stage: Stages, payload: Payloads, exit: {0, 1, -9, -24},
          guards: SUBSET {"cpu", "memory", "file", "network", "import", "builtins", "hook"}]

Typed ==
    /\ script \in [Attempts -> Scripts]
    /\ node \in [Attempts -> {"idle", "waiting", "given_up", "completed", "timeout",
                              "permission", "validation", "runtime"}]
    /\ thread \in [Attempts -> {"start", "communicate", "reap"} \cup Outcomes]
    /\ child \in [Attempts -> Child]
    /\ started \subseteq Attempts /\ workdir \subseteq started
    /\ invocations \in Nat

(* The thread is under way from the node's start of it, the directory while  *)
(* the thread needs it, the child while the thread waits for it.             *)
InStep(a) ==
    /\ a \in started <=> thread[a] # "none"
    /\ node[a] = "idle" => thread[a] = "none"
    /\ a \in workdir <=> thread[a] \in {"communicate", "reap"}
    /\ thread[a] \in {"none", "start"} => child[a].stage = "none"
    /\ Alive(a) => thread[a] = "communicate"

Behind(stage) ==
    (IF stage \in {"none", "_limits", "exited"} THEN {} ELSE {"cpu"})
    \cup (IF stage \in {"none", "_limits", "_socket", "exited"} THEN {} ELSE {"network"})
    \cup (IF stage \in {"_builtins", "_hook", "_run", "_report"} THEN {"import"} ELSE {})
    \cup (IF stage \in {"_hook", "_run", "_report"} THEN {"builtins"} ELSE {})
    \cup (IF stage \in {"_run", "_report"} THEN {"hook"} ELSE {})

ChildTells(a) == LET c == child[a] IN
    /\ Behind(c.stage) \subseteq c.guards
    /\ c.stage # "exited" => c.payload = "none"
    /\ c.stage = "_report" \/ c.payload = "ok" => script[a] = "fine"
    /\ c.payload = "SyntaxError" => script[a] = "syntax"
    /\ c.exit = 1 => c.payload = "none"

ThreadTells(a) ==
    /\ thread[a] = "ok" => /\ child[a].stage = "exited" /\ child[a].payload = "ok"
                           /\ child[a].exit = 0
    /\ thread[a] = "SyntaxError" => script[a] = "syntax"
    /\ node[a] = "completed" => thread[a] = "ok"
    /\ node[a] = "validation" => thread[a] = "SyntaxError"
    /\ node[a] = "timeout" => thread[a] = "Timeout"

(* Every run() is counted, whether or not it got past the quota.             *)
Counted ==
    /\ invocations = IF Quota = 0 THEN 0 ELSE Cardinality({a \in Attempts : node[a] # "idle"})
    /\ Quota > 0 => Cardinality(started) <= invocations /\ Cardinality(started) <= Quota

SandboxInv ==
    /\ Typed /\ Counted
    /\ \A a \in Attempts : InStep(a) /\ ChildTells(a) /\ ThreadTells(a)

-----------------------------------------------------------------------------
(* Every script comes to an end, also one that sleeps for ever.              *)
EveryScriptEnds == \A a \in Attempts : Busy(a) ~> ~Busy(a)

=============================================================================
