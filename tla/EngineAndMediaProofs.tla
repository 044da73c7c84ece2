----------------------------- MODULE EngineAndMediaProofs ------------------------
(***************************************************************************)
(* What runs with the engine promises, for all nodes, scripts and quotas,    *)
(* all requests of media, all graphs of the first scheduler, all lines of    *)
(* the log, and every bound.                                                 *)
(***************************************************************************)
EXTENDS MCEngineAndMedia, ListsProofs, FiniteSetTheorems, WellFoundedInduction, SequenceTheorems, TLAPS

-----------------------------------------------------------------------------
(* The components count and measure with the operators of FiniteSets.        *)
LEMMA SameCounts ==
    \A T : /\ S!IsFiniteSet(T) <=> IsFiniteSet(T)
           /\ S!Cardinality(T) = Cardinality(T)
           /\ A!IsFiniteSet(T) <=> IsFiniteSet(T)
           /\ A!Cardinality(T) = Cardinality(T)
           /\ L!IsFiniteSet(T) <=> IsFiniteSet(T)
           /\ L!Cardinality(T) = Cardinality(T)
           /\ P!IsFiniteSet(T) <=> IsFiniteSet(T)
           /\ P!Cardinality(T) = Cardinality(T)
           /\ V!IsFiniteSet(T) <=> IsFiniteSet(T)
           /\ V!Cardinality(T) = Cardinality(T)
<1>1. \A T : S!IsFiniteSet(T) <=> IsFiniteSet(T)
  BY DEF S!IsFiniteSet, IsFiniteSet
<1>2. \A T : S!Cardinality(T) = Cardinality(T)
  BY DEF S!Cardinality, Cardinality
<1>3. \A T : A!IsFiniteSet(T) <=> IsFiniteSet(T)
  BY DEF A!IsFiniteSet, IsFiniteSet
<1>4. \A T : A!Cardinality(T) = Cardinality(T)
  BY DEF A!Cardinality, Cardinality
<1>5. \A T : L!IsFiniteSet(T) <=> IsFiniteSet(T)
  BY DEF L!IsFiniteSet, IsFiniteSet
<1>6. \A T : L!Cardinality(T) = Cardinality(T)
  BY DEF L!Cardinality, Cardinality
<1>7. \A T : P!IsFiniteSet(T) <=> IsFiniteSet(T)
  BY DEF P!IsFiniteSet, IsFiniteSet
<1>8. \A T : P!Cardinality(T) = Cardinality(T)
  BY DEF P!Cardinality, Cardinality
<1>9. \A T : V!IsFiniteSet(T) <=> IsFiniteSet(T)
  BY DEF V!IsFiniteSet, IsFiniteSet
<1>10. \A T : V!Cardinality(T) = Cardinality(T)
  BY DEF V!Cardinality, Cardinality
<1> QED
  BY <1>1, <1>2, <1>3, <1>4, <1>5, <1>6, <1>7, <1>8, <1>9, <1>10

(* What is assumed of the quota and the attempts.                            *)
LEMMA QuotaAssumed == EngineAndMediaAssumption => Quota \in Nat /\ IsFiniteSet(Attempts)
BY SameCounts DEF EngineAndMediaAssumption, S!SandboxAssumption

-----------------------------------------------------------------------------
(* The sandbox of the script nodes.                                          *)

Told(a) == S!InStep(a) /\ S!ChildTells(a) /\ S!ThreadTells(a)

(* The attempts whose node has run are counted, whatever they do next.       *)
LEMMA CountKept ==
    ASSUME S!Typed, S!Counted, UNCHANGED <<invocations, started>>,
           \A a \in Attempts : node'[a] = "idle" <=> node[a] = "idle"
    PROVE  S!Counted'
<1>1. {a \in Attempts : node'[a] # "idle"} = {a \in Attempts : node[a] # "idle"}
  OBVIOUS
<1> QED
  BY <1>1 DEF S!Counted

(* Before the first step no attempt has been made.                           *)
LEMMA SandboxInit == ASSUME EngineAndMediaAssumption, S!Init PROVE S!SandboxInv
<1>1. S!Typed
  BY DEF S!Init, S!Typed, S!NoChild, S!Child, S!Stages, S!Payloads, S!Outcomes
<1>2. S!Counted
  <2>1. {a \in Attempts : node[a] # "idle"} = {}
    BY DEF S!Init
  <2> QED
    BY <2>1, FS_EmptySet, SameCounts, QuotaAssumed DEF S!Counted, S!Init
<1>3. ASSUME NEW a \in Attempts PROVE Told(a)
  BY DEF S!Init, S!NoChild, Told, S!InStep, S!ChildTells, S!ThreadTells, S!Alive, S!Behind
<1> QED
  BY <1>1, <1>2, <1>3 DEF S!SandboxInv, Told

(* Run(): the attempt is counted; within the quota its thread is started.    *)
LEMMA RunKeeps ==
    ASSUME EngineAndMediaAssumption, S!SandboxInv, NEW a \in Attempts, S!Run(a)
    PROVE  S!SandboxInv'
<1> DEFINE Used == {b \in Attempts : node[b] # "idle"}
<1>1. S!Typed /\ S!Counted /\ \A b \in Attempts : Told(b)
  BY DEF S!SandboxInv, Told
<1>2. S!Typed'
  BY <1>1 DEF S!Typed, S!Run, S!Outcomes
<1>3. S!Counted'
  <2>1. IsFiniteSet(Used) /\ IsFiniteSet(started) /\ Cardinality(Used) \in Nat
    BY <1>1, FS_Subset, FS_CardinalityType, QuotaAssumed DEF S!Typed
  <2>2. a \notin Used /\ a \notin started
    BY <1>1 DEF S!Run, Told, S!InStep
  <2>3. {b \in Attempts : node'[b] # "idle"} = Used \cup {a}
    <3>1. \A b \in Attempts : node'[b] # "idle" <=> b \in Used \cup {a}
      BY <1>1 DEF S!Run, S!Typed
    <3> QED
      BY <3>1
  <2>4. Cardinality(Used \cup {a}) = Cardinality(Used) + 1
    BY <2>1, <2>2, FS_AddElement
  <2>5. Cardinality(started \cup {a}) = Cardinality(started) + 1
    BY <2>1, <2>2, FS_AddElement
  <2>6. Cardinality(started) \in Nat
    BY <2>1, FS_CardinalityType
  <2>7. invocations' = IF Quota = 0 THEN 0 ELSE Cardinality({b \in Attempts : node'[b] # "idle"})
    BY <1>1, <2>1, <2>3, <2>4, SameCounts DEF S!Counted, S!Run
  <2>8. ASSUME Quota > 0
        PROVE  Cardinality(started') <= invocations' /\ Cardinality(started') <= Quota
    <3>1. Quota \in Nat /\ invocations \in Nat /\ invocations' = invocations + 1
      BY <1>1, <2>8, QuotaAssumed DEF S!Typed, S!Run
    <3>2. Cardinality(started) <= invocations /\ Cardinality(started) <= Quota
      BY <1>1, <2>8, SameCounts DEF S!Counted
    <3>3. started' = started \/ (started' = started \cup {a} /\ invocations + 1 <= Quota)
      BY <2>8, <3>1 DEF S!Run, S!_check_quota
    <3>4. \/ Cardinality(started') = Cardinality(started)
          \/ Cardinality(started') = Cardinality(started) + 1 /\ invocations + 1 <= Quota
      BY <2>5, <3>3 DEF Used
    <3>5. PICK old \in Nat : old = Cardinality(started)
      BY <2>6
    <3>6. PICK new : new = Cardinality(started')
      OBVIOUS
    <3> QED
      BY <3>1, <3>2, <3>4, <3>5, <3>6
  <2> QED
    BY <2>7, <2>8, SameCounts DEF S!Counted
<1>4. ASSUME NEW b \in Attempts PROVE Told(b)'
  <2>1. Told(b) /\ Told(a) /\ S!Typed
    BY <1>1
  <2> HIDE DEF Used
  <2>2. CASE b = a
    BY <2>1, <2>2 DEF S!Run, S!Typed, Told, S!InStep, S!ChildTells, S!ThreadTells, S!Alive
  <2>3. CASE b # a
    BY <2>1, <2>3 DEF S!Run, S!Typed, Told, S!InStep, S!ChildTells, S!ThreadTells, S!Alive
  <2> QED
    BY <2>2, <2>3
<1> QED
  BY <1>2, <1>3, <1>4 DEF S!SandboxInv, Told

(* The time limit of the node: thread and child go on alone.                 *)
LEMMA GiveUpKeeps ==
    ASSUME S!SandboxInv, NEW a \in Attempts, S!GiveUp(a)
    PROVE  S!SandboxInv'
<1>1. S!Typed /\ S!Counted /\ \A b \in Attempts : Told(b)
  BY DEF S!SandboxInv, Told
<1>2. S!Typed'
  BY <1>1 DEF S!Typed, S!GiveUp
<1>3. S!Counted'
  <2>1. \A b \in Attempts : node'[b] = "idle" <=> node[b] = "idle"
    BY <1>1 DEF S!Typed, S!GiveUp
  <2> QED
    BY <1>1, <2>1, CountKept DEF S!GiveUp
<1>4. ASSUME NEW b \in Attempts PROVE Told(b)'
  BY <1>1 DEF S!GiveUp, S!Typed, Told, S!InStep, S!ChildTells, S!ThreadTells, S!Alive
<1> QED
  BY <1>2, <1>3, <1>4 DEF S!SandboxInv, Told

(* A step of the thread that leaves the node alone.                          *)
LEMMA SpawnKeeps ==
    ASSUME S!SandboxInv, NEW a \in Attempts, S!Spawn(a)
    PROVE  S!SandboxInv'
<1>1. S!Typed /\ S!Counted /\ \A b \in Attempts : Told(b)
  BY DEF S!SandboxInv, Told
<1>2. S!Typed'
  <2>1. child[a] \in S!Child
    BY <1>1 DEF S!Typed
  <2>2. [child[a] EXCEPT !.stage = "_limits"] \in S!Child
    BY <2>1 DEF S!Child, S!Stages
  <2>3. child' \in [Attempts -> S!Child]
    BY <1>1, <2>2 DEF S!Typed, S!Spawn
  <2>4. a \in started
    BY <1>1 DEF Told, S!InStep, S!Spawn
  <2> QED
    BY <1>1, <2>3, <2>4 DEF S!Typed, S!Spawn
<1>3. S!Counted'
  BY <1>1, CountKept DEF S!Spawn
<1>4. ASSUME NEW b \in Attempts PROVE Told(b)'
  <2>1. Told(b) /\ S!Typed /\ child[b] \in S!Child
    BY <1>1 DEF S!Typed
  <2>2. CASE b = a
    <3>1. child'[a] = [child[a] EXCEPT !.stage = "_limits"] /\ thread'[a] = "communicate"
      BY <2>1, <2>2 DEF S!Spawn, S!Typed
    <3>2. /\ child'[a].stage = "_limits" /\ child'[a].payload = child[a].payload
          /\ child'[a].guards = child[a].guards /\ child[a].stage = "none"
      BY <2>1, <2>2, <3>1 DEF S!Child, Told, S!InStep, S!Spawn
    <3> QED
      BY <2>1, <2>2, <3>1, <3>2
         DEF S!Spawn, Told, S!InStep, S!ChildTells, S!ThreadTells, S!Alive, S!Behind
  <2>3. CASE b # a
    BY <2>1, <2>3 DEF S!Spawn, S!Typed, Told, S!InStep, S!ChildTells, S!ThreadTells, S!Alive
  <2> QED
    BY <2>2, <2>3
<1> QED
  BY <1>2, <1>3, <1>4 DEF S!SandboxInv, Told

(* What the thread makes of its outcome, for the node that waits for it.     *)
LEMMA ReturnKeeps ==
    ASSUME S!SandboxInv, NEW a \in Attempts, NEW outcome \in S!Outcomes,
           S!Return(a, outcome), UNCHANGED <<script, child, invocations, started>>,
           thread[a] \in {"start", "communicate", "reap"}, ~S!Alive(a),
           workdir' = workdir \ {a}, outcome # "none",
           outcome = "ok" => /\ child[a].stage = "exited" /\ child[a].payload = "ok"
                             /\ child[a].exit = 0,
           outcome = "SyntaxError" => script[a] = "syntax"
    PROVE  S!SandboxInv'
<1>1. S!Typed /\ S!Counted /\ \A b \in Attempts : Told(b)
  BY DEF S!SandboxInv, Told
<1>2. /\ S!_run_sandboxed(outcome) \in {"completed", "timeout", "permission", "validation",
                                        "runtime"}
      /\ S!_run_sandboxed(outcome) = "completed" => outcome = "ok"
      /\ S!_run_sandboxed(outcome) = "validation" => outcome = "SyntaxError"
      /\ S!_run_sandboxed(outcome) = "timeout" => outcome = "Timeout"
  BY DEF S!Outcomes, S!Payloads, S!_run_sandboxed
<1>3. PICK verdict : verdict = S!_run_sandboxed(outcome)
  OBVIOUS
<1>4. node' = [node EXCEPT ![a] = IF node[a] = "waiting" THEN verdict ELSE node[a]]
  BY <1>3 DEF S!Return
<1>5. thread' = [thread EXCEPT ![a] = outcome]
  BY DEF S!Return
<1>6. S!Typed'
  BY <1>1, <1>2, <1>3, <1>4, <1>5 DEF S!Typed
<1>7. S!Counted'
  <2>1. \A b \in Attempts : node'[b] = "idle" <=> node[b] = "idle"
    BY <1>1, <1>2, <1>3, <1>4 DEF S!Typed
  <2> QED
    BY <1>1, <2>1, CountKept
<1>8. ASSUME NEW b \in Attempts PROVE Told(b)'
  <2>1. Told(b) /\ S!Typed
    BY <1>1
  <2>2. CASE b = a
    <3>1. thread'[a] = outcome /\ node'[a] = IF node[a] = "waiting" THEN verdict ELSE node[a]
      BY <1>4, <1>5, <2>1 DEF S!Typed
    <3>2. S!InStep(a)'
      BY <1>2, <1>3, <2>1, <2>2, <3>1 DEF Told, S!InStep, S!Alive, S!Outcomes, S!Payloads
    <3>3. S!ChildTells(a)'
      BY <2>1, <2>2 DEF Told, S!ChildTells
    <3>4. S!ThreadTells(a)'
      BY <1>2, <1>3, <2>1, <2>2, <3>1 DEF Told, S!InStep, S!ThreadTells
    <3> QED
      BY <2>2, <3>2, <3>3, <3>4 DEF Told
  <2>3. CASE b # a
    <3>1. thread'[b] = thread[b] /\ node'[b] = node[b] /\ (b \in workdir' <=> b \in workdir)
      BY <1>4, <1>5, <2>1, <2>3 DEF S!Typed
    <3> QED
      BY <2>1, <3>1 DEF Told, S!InStep, S!ChildTells, S!ThreadTells, S!Alive
  <2> QED
    BY <2>2, <2>3
<1> QED
  BY <1>6, <1>7, <1>8 DEF S!SandboxInv, Told

(* Popen() fails: the node has its outcome, no child was there.              *)
LEMMA SpawnFailsKeeps ==
    ASSUME S!SandboxInv, NEW a \in Attempts, S!SpawnFails(a)
    PROVE  S!SandboxInv'
<1>1. Told(a)
  BY DEF S!SandboxInv, Told
<1>2. thread[a] = "start" /\ ~S!Alive(a) /\ a \notin workdir
  BY <1>1 DEF S!SpawnFails, Told, S!InStep, S!Alive
<1>3. workdir' = workdir \ {a} /\ UNCHANGED <<script, child, invocations, started>>
  BY <1>2 DEF S!SpawnFails
<1>4. "SandboxStartError" \in S!Outcomes
  BY DEF S!Outcomes
<1> QED
  BY <1>2, <1>3, <1>4, ReturnKeeps DEF S!SpawnFails

(* The killed child is collected: the outcome is Timeout.                    *)
LEMMA ReapKeeps ==
    ASSUME S!SandboxInv, NEW a \in Attempts, S!Reap(a)
    PROVE  S!SandboxInv'
<1>1. "Timeout" \in S!Outcomes
  BY DEF S!Outcomes
<1> QED
  BY <1>1, ReturnKeeps DEF S!Reap

(* The verdict on a child that ended by itself is what the child reported    *)
(* when it ended well, and never a success when it did not.                  *)
LEMMA CollectKeeps ==
    ASSUME S!SandboxInv, NEW a \in Attempts, S!Collect(a)
    PROVE  S!SandboxInv'
<1>1. S!Typed /\ Told(a)
  BY DEF S!SandboxInv, Told
<1>2. child[a] \in S!Child /\ child[a].stage = "exited" /\ thread[a] = "communicate"
  BY <1>1 DEF S!Collect, S!Typed
<1>3. ~S!Alive(a)
  BY <1>2 DEF S!Alive
<1>4. child[a].exit \in {0, 1, -9, -24} /\ child[a].payload \in S!Payloads
  BY <1>2 DEF S!Child
<1>5. PICK outcome : outcome = S!Outcome(child[a])
  OBVIOUS
<1>6. /\ outcome \in S!Outcomes /\ outcome # "none"
      /\ outcome = "ok" => child[a].payload = "ok" /\ child[a].exit >= 0
      /\ outcome = "SyntaxError" => child[a].payload = "SyntaxError"
  BY <1>4, <1>5 DEF S!Outcome, S!Outcomes, S!Payloads
<1>7. outcome = "ok" => child[a].exit = 0
  BY <1>1, <1>4, <1>6 DEF Told, S!ChildTells
<1>8. outcome = "SyntaxError" => script[a] = "syntax"
  BY <1>1, <1>6 DEF Told, S!ChildTells
<1>9. S!Return(a, outcome) /\ workdir' = workdir \ {a}
      /\ UNCHANGED <<script, child, invocations, started>>
  BY <1>5 DEF S!Collect
<1> QED
  BY <1>2, <1>3, <1>6, <1>7, <1>8, <1>9, ReturnKeeps

(* The wall clock: a child under way is killed, one that has ended keeps its *)
(* verdict.                                                                  *)
LEMMA WallTimeoutKeeps ==
    ASSUME S!SandboxInv, NEW a \in Attempts, S!WallTimeout(a)
    PROVE  S!SandboxInv'
<1>1. S!Typed /\ S!Counted /\ \A b \in Attempts : Told(b)
  BY DEF S!SandboxInv, Told
<1>2. PICK killed : killed = S!_kill_process_tree(child[a])
  OBVIOUS
<1>3. /\ killed \in S!Child /\ killed.stage = "exited" /\ killed.exit = -9
      /\ killed.payload = child[a].payload /\ killed.guards = child[a].guards
  <2>1. child[a] \in S!Child
    BY <1>1 DEF S!Typed
  <2> QED
    BY <1>2, <2>1 DEF S!_kill_process_tree, S!Child, S!Stages
<1>4. child' = IF S!Alive(a) THEN [child EXCEPT ![a] = killed] ELSE child
  BY <1>2 DEF S!WallTimeout
<1>5. /\ thread[a] = "communicate" /\ thread' = [thread EXCEPT ![a] = "reap"]
      /\ UNCHANGED <<script, node, workdir, invocations, started>>
  BY DEF S!WallTimeout
<1>6. S!Typed'
  BY <1>1, <1>3, <1>4, <1>5 DEF S!Typed
<1>7. S!Counted'
  BY <1>1, <1>5, CountKept
<1>8. ASSUME NEW b \in Attempts PROVE Told(b)'
  <2>1. Told(b) /\ S!Typed
    BY <1>1
  <2>2. CASE b = a
    <3>1. /\ thread'[a] = "reap" /\ child'[a].stage \in {"exited", "none"}
          /\ child'[a].payload = child[a].payload
          /\ S!Alive(a) => child'[a].stage = "exited" /\ child'[a].exit = -9
          /\ ~S!Alive(a) => child'[a] = child[a]
      BY <1>3, <1>4, <1>5, <2>1 DEF S!Typed, S!Alive
    <3>2. S!Behind(child'[a].stage) \subseteq child'[a].guards
      BY <3>1 DEF S!Behind
    <3>3. S!ChildTells(a)'
      BY <1>5, <2>1, <2>2, <3>1, <3>2 DEF Told, S!ChildTells, S!Alive
    <3>4. S!InStep(a)' /\ S!ThreadTells(a)'
      BY <1>5, <2>1, <2>2, <3>1 DEF Told, S!InStep, S!ThreadTells, S!Alive
    <3> QED
      BY <2>2, <3>3, <3>4 DEF Told
  <2>3. CASE b # a
    <3>1. thread'[b] = thread[b] /\ child'[b] = child[b]
      BY <1>4, <1>5, <2>1, <2>3 DEF S!Typed
    <3> QED
      BY <1>5, <2>1, <3>1 DEF Told, S!InStep, S!ChildTells, S!ThreadTells, S!Alive
  <2> QED
    BY <2>2, <2>3
<1> QED
  BY <1>6, <1>7, <1>8 DEF S!SandboxInv, Told

(* A step of the child that leaves it in a state true to the script.         *)
Honest(a, c) ==
    /\ c \in S!Child
    /\ S!Behind(c.stage) \subseteq c.guards
    /\ c.stage # "none"
    /\ c.stage # "exited" => c.payload = "none"
    /\ c.stage = "_report" \/ c.payload = "ok" => script[a] = "fine"
    /\ c.payload = "SyntaxError" => script[a] = "syntax"
    /\ c.exit = 1 => c.payload = "none"

(* Such a step disturbs nothing else.                                        *)
LEMMA ChildKeeps ==
    ASSUME S!SandboxInv, NEW a \in Attempts, NEW c, Honest(a, c), S!Alive(a),
           child' = [child EXCEPT ![a] = c],
           UNCHANGED <<script, node, thread, workdir, invocations, started>>
    PROVE  S!SandboxInv'
<1>1. S!Typed /\ S!Counted /\ \A b \in Attempts : Told(b)
  BY DEF S!SandboxInv, Told
<1>2. S!Typed'
  BY <1>1 DEF S!Typed, Honest
<1>3. S!Counted'
  BY <1>1, CountKept
<1>4. ASSUME NEW b \in Attempts PROVE Told(b)'
  <2>1. Told(b) /\ S!Typed
    BY <1>1
  <2>2. CASE b = a
    <3>1. child'[a] = c /\ thread[a] = "communicate"
      BY <2>1, <2>2 DEF S!Typed, Told, S!InStep
    <3>2. S!InStep(a)' /\ S!ThreadTells(a)'
      BY <2>1, <2>2, <3>1 DEF Told, S!InStep, S!ThreadTells, S!Alive
    <3>3. S!ChildTells(a)'
      BY <3>1 DEF S!ChildTells, Honest
    <3> QED
      BY <2>2, <3>2, <3>3 DEF Told
  <2>3. CASE b # a
    <3>1. child'[b] = child[b]
      BY <2>1, <2>3 DEF S!Typed
    <3> QED
      BY <2>1, <3>1 DEF Told, S!InStep, S!ChildTells, S!ThreadTells, S!Alive
  <2> QED
    BY <2>2, <2>3
<1> QED
  BY <1>2, <1>3, <1>4 DEF S!SandboxInv, Told

(* One step of the bootstrap goes on with more guards in force, ...          *)
LEMMA GotoStep ==
    ASSUME S!Typed, NEW a \in Attempts, NEW stage \in S!Stages,
           NEW guards \in SUBSET {"cpu", "memory", "file", "network", "import", "builtins", "hook"},
           S!Goto(a, stage, guards)
    PROVE  \E c \in S!Child :
              /\ child' = [child EXCEPT ![a] = c]
              /\ c.stage = stage /\ c.guards = child[a].guards \cup guards
              /\ c.payload = child[a].payload /\ c.exit = child[a].exit
<1>1. child[a] \in S!Child
  BY DEF S!Typed
<1>2. PICK c : c = [child[a] EXCEPT !.stage = stage, !.guards = child[a].guards \cup guards]
  OBVIOUS
<1>3. child' = [child EXCEPT ![a] = c]
  BY <1>2 DEF S!Goto
<1>4. /\ c \in S!Child /\ c.stage = stage /\ c.guards = child[a].guards \cup guards
      /\ c.payload = child[a].payload /\ c.exit = child[a].exit
  BY <1>1, <1>2 DEF S!Child
<1> QED
  BY <1>3, <1>4

(* ... or ends the child with what it reports.                               *)
LEMMA ExitStep ==
    ASSUME S!Typed, NEW a \in Attempts, NEW payload \in S!Payloads,
           NEW code \in {0, 1, -9, -24}, S!Exit(a, payload, code)
    PROVE  \E c \in S!Child :
              /\ child' = [child EXCEPT ![a] = c]
              /\ c.stage = "exited" /\ c.payload = payload /\ c.exit = code
<1>1. child[a] \in S!Child
  BY DEF S!Typed
<1>2. PICK c : c = [child[a] EXCEPT !.stage = "exited", !.payload = payload, !.exit = code]
  OBVIOUS
<1>3. child' = [child EXCEPT ![a] = c]
  BY <1>2 DEF S!Exit
<1>4. c \in S!Child /\ c.stage = "exited" /\ c.payload = payload /\ c.exit = code
  BY <1>1, <1>2 DEF S!Child, S!Stages
<1> QED
  BY <1>3, <1>4

(* The bootstrap goes from stage to stage in order; what each leaves behind  *)
(* is in force before the next.                                              *)
LEMMA GotoKeeps ==
    ASSUME S!SandboxInv, NEW a \in Attempts, NEW stage \in S!Stages \ {"none", "exited"},
           NEW guards \in SUBSET {"cpu", "memory", "file", "network", "import", "builtins", "hook"},
           S!Goto(a, stage, guards), S!Alive(a),
           S!Behind(stage) \subseteq S!Behind(child[a].stage) \cup guards,
           stage = "_report" => script[a] = "fine",
           UNCHANGED <<script, node, thread, workdir, invocations, started>>
    PROVE  S!SandboxInv'
<1>1. S!Typed /\ Told(a)
  BY DEF S!SandboxInv, Told
<1>2. PICK c \in S!Child :
         /\ child' = [child EXCEPT ![a] = c]
         /\ c.stage = stage /\ c.guards = child[a].guards \cup guards
         /\ c.payload = child[a].payload /\ c.exit = child[a].exit
  <2>1. S!Typed /\ stage \in S!Stages /\ S!Goto(a, stage, guards)
    BY <1>1
  <2> QED
    BY ONLY <2>1, GotoStep, a \in Attempts,
       guards \in SUBSET {"cpu", "memory", "file", "network", "import", "builtins", "hook"}
<1>3. child[a].payload = "none" /\ S!Behind(child[a].stage) \subseteq child[a].guards
  <2>1. S!ChildTells(a)
    BY <1>1 DEF Told
  <2> QED
    BY <2>1 DEF S!Alive, S!ChildTells
<1>4. S!Behind(c.stage) \subseteq c.guards
  BY <1>2, <1>3
<1>5. Honest(a, c)
  BY <1>2, <1>3, <1>4 DEF Honest
<1> QED
  BY <1>2, <1>5, ChildKeeps

(* The child ends and reports what became of its script.                     *)
LEMMA ExitKeeps ==
    ASSUME S!SandboxInv, NEW a \in Attempts, NEW payload \in S!Payloads,
           NEW code \in {0, 1, -9, -24}, S!Exit(a, payload, code), S!Alive(a),
           payload = "ok" => script[a] = "fine",
           payload = "SyntaxError" => script[a] = "syntax",
           code = 1 => payload = "none",
           UNCHANGED <<script, node, thread, workdir, invocations, started>>
    PROVE  S!SandboxInv'
<1>1. S!Typed
  BY DEF S!SandboxInv
<1>2. PICK c \in S!Child :
         /\ child' = [child EXCEPT ![a] = c]
         /\ c.stage = "exited" /\ c.payload = payload /\ c.exit = code
  BY <1>1, ExitStep
<1>3. S!Behind(c.stage) \subseteq c.guards
  BY <1>2 DEF S!Behind
<1>4. Honest(a, c)
  BY <1>2, <1>3 DEF Honest
<1> QED
  BY <1>2, <1>4, ChildKeeps

(* Each stage of the bootstrap, and the script itself.                       *)
LEMMA BootstrapKeeps ==
    ASSUME S!SandboxInv, NEW a \in Attempts, S!Bootstrap(a)
    PROVE  S!SandboxInv'
<1> DEFINE here == child[a].stage
<1> DEFINE All == {"cpu", "memory", "file", "network", "import", "builtins", "hook"}
<1>1. UNCHANGED <<script, node, thread, workdir, invocations, started>>
  BY DEF S!Bootstrap
<1>2. /\ {"none", "ok", "SyntaxError", "ValueError", "PermissionError", "MemoryError"}
             \subseteq S!Payloads
      /\ {"_socket", "_compile", "_warmup", "_guard", "_builtins", "_hook", "_run", "_report"}
             \subseteq S!Stages \ {"none", "exited"}
  BY DEF S!Payloads, S!Stages
<1>3. CASE here = "_limits" /\ S!_limits(a)
  <2>1. S!Alive(a)
    BY <1>3 DEF S!Alive
  <2>2. ASSUME NEW applied \in SUBSET {"memory", "file"},
               S!Goto(a, "_socket", {"cpu"} \cup applied)
        PROVE  S!SandboxInv'
    <3>1. S!Behind("_socket") \subseteq S!Behind(here) \cup ({"cpu"} \cup applied)
      BY DEF S!Behind
    <3>2. {"cpu"} \cup applied \in SUBSET All
      OBVIOUS
    <3> QED
      BY <1>1, <1>2, <2>1, <2>2, <3>1, <3>2, GotoKeeps
  <2>3. CASE S!Exit(a, "none", 1)
    BY <1>1, <1>2, <2>1, <2>3, ExitKeeps
  <2> QED
    BY <1>3, <2>2, <2>3 DEF S!_limits
<1>4. CASE here = "_socket" /\ S!_socket(a)
  <2>1. S!Alive(a) /\ S!Goto(a, "_compile", {"network"})
    BY <1>4 DEF S!Alive, S!_socket
  <2>2. S!Behind("_compile") \subseteq S!Behind(here) \cup {"network"}
    BY <1>4 DEF S!Behind
  <2> QED
    BY <1>1, <1>2, <2>1, <2>2, GotoKeeps
<1>5. CASE here = "_compile" /\ S!_compile(a)
  <2>1. S!Alive(a)
    BY <1>5 DEF S!Alive
  <2>2. CASE script[a] = "syntax"
    BY <1>1, <1>2, <1>5, <2>1, <2>2, ExitKeeps DEF S!_compile
  <2>3. CASE script[a] # "syntax"
    <3>1. S!Behind("_warmup") \subseteq S!Behind(here) \cup {}
      BY <1>5 DEF S!Behind
    <3> QED
      BY <1>1, <1>2, <1>5, <2>1, <2>3, <3>1, GotoKeeps DEF S!_compile
  <2> QED
    BY <2>2, <2>3
<1>6. CASE here = "_warmup" /\ S!_warmup(a)
  <2>1. S!Alive(a) /\ S!Goto(a, "_guard", {})
    BY <1>6 DEF S!Alive, S!_warmup
  <2>2. S!Behind("_guard") \subseteq S!Behind(here) \cup {}
    BY <1>6 DEF S!Behind
  <2> QED
    BY <1>1, <1>2, <2>1, <2>2, GotoKeeps
<1>7. CASE here = "_guard" /\ S!_guard(a)
  <2>1. S!Alive(a) /\ S!Goto(a, "_builtins", {"import"})
    BY <1>7 DEF S!Alive, S!_guard
  <2>2. S!Behind("_builtins") \subseteq S!Behind(here) \cup {"import"}
    BY <1>7 DEF S!Behind
  <2> QED
    BY <1>1, <1>2, <2>1, <2>2, GotoKeeps
<1>8. CASE here = "_builtins" /\ S!_builtins(a)
  <2>1. S!Alive(a) /\ S!Goto(a, "_hook", {"builtins"})
    BY <1>8 DEF S!Alive, S!_builtins
  <2>2. S!Behind("_hook") \subseteq S!Behind(here) \cup {"builtins"}
    BY <1>8 DEF S!Behind
  <2> QED
    BY <1>1, <1>2, <2>1, <2>2, GotoKeeps
<1>9. CASE here = "_hook" /\ S!_hook(a)
  <2>1. S!Alive(a) /\ S!Goto(a, "_run", {"hook"})
    BY <1>9 DEF S!Alive, S!_hook
  <2>2. S!Behind("_run") \subseteq S!Behind(here) \cup {"hook"}
    BY <1>9 DEF S!Behind
  <2> QED
    BY <1>1, <1>2, <2>1, <2>2, GotoKeeps
<1>10. CASE here = "_run" /\ S!_run(a)
  <2>1. S!Alive(a)
    BY <1>10 DEF S!Alive
  <2>2. CASE script[a] = "fine"
    <3>1. S!Goto(a, "_report", {})
      BY <1>10, <2>2 DEF S!_run
    <3>2. S!Behind("_report") \subseteq S!Behind(here) \cup {}
      BY <1>10 DEF S!Behind
    <3> QED
      BY <1>1, <1>2, <2>1, <2>2, <3>1, <3>2, GotoKeeps
  <2>3. CASE script[a] # "fine"
    <3>1. \/ S!Exit(a, "ValueError", 0) \/ S!Exit(a, "PermissionError", 0)
          \/ S!Exit(a, "MemoryError", 0) \/ S!Exit(a, "none", -9)
      BY <1>10, <2>3 DEF S!_run
    <3> QED
      BY <1>1, <1>2, <2>1, <3>1, ExitKeeps
  <2> QED
    BY <2>2, <2>3
<1>11. CASE here = "_report" /\ S!_report(a)
  <2>1. S!Alive(a) /\ script[a] = "fine"
    BY <1>11 DEF S!Alive, S!SandboxInv, S!ChildTells
  <2>2. S!Exit(a, "ok", 0) \/ S!Exit(a, "ok", -24)
    BY <1>11 DEF S!_report
  <2> QED
    BY <1>1, <1>2, <2>1, <2>2, ExitKeeps
<1> QED
  BY <1>3, <1>4, <1>5, <1>6, <1>7, <1>8, <1>9, <1>10, <1>11 DEF S!Bootstrap

(* The kernel ends a child that computes for ever.                           *)
LEMMA CpuLimitKeeps ==
    ASSUME S!SandboxInv, NEW a \in Attempts, S!CpuLimit(a)
    PROVE  S!SandboxInv'
<1>1. S!Alive(a) /\ "none" \in S!Payloads
  BY DEF S!Alive, S!CpuLimit, S!Payloads
<1> QED
  BY <1>1, ExitKeeps DEF S!CpuLimit

(* Every step keeps the invariant.                                           *)
LEMMA SandboxStep == ASSUME EngineAndMediaAssumption, S!SandboxInv, S!Next PROVE S!SandboxInv'
<1>1. PICK a \in Attempts :
         S!Run(a) \/ S!GiveUp(a) \/ S!Thread(a) \/ S!Bootstrap(a) \/ S!CpuLimit(a)
  BY DEF S!Next
<1> QED
  BY <1>1, RunKeeps, GiveUpKeeps, SpawnKeeps, SpawnFailsKeeps, WallTimeoutKeeps, ReapKeeps,
     CollectKeeps, BootstrapKeeps, CpuLimitKeeps
     DEF S!Thread

(* What the invariant says of the scripts.                                   *)
LEMMA SandboxSound ==
    ASSUME EngineAndMediaAssumption, S!SandboxInv
    PROVE  /\ S!TypeOK /\ S!NothingLeftBehind /\ S!GuardsFirst
           /\ S!VerdictIsRight /\ S!QuotaHolds
<1>1. S!Typed /\ S!Counted /\ \A b \in Attempts : Told(b)
  BY DEF S!SandboxInv, Told
<1>2. S!TypeOK
  <2> DEFINE Used == {b \in Attempts : node[b] # "idle"}
  <2>1. /\ Cardinality(Used) \in Nat /\ Cardinality(Attempts) \in Nat
        /\ Cardinality(Used) <= Cardinality(Attempts)
    BY FS_Subset, FS_CardinalityType, QuotaAssumed
  <2>2. invocations = 0 \/ invocations = Cardinality(Used)
    BY <1>1, SameCounts DEF S!Counted
  <2>3. invocations \in 0..Cardinality(Attempts)
    <3> HIDE DEF Used
    <3> QED
      BY <2>1, <2>2
  <2>4. invocations \in 0..S!Cardinality(Attempts)
    BY <2>3, SameCounts
  <2> QED
    BY <1>1, <2>4 DEF S!Typed, S!TypeOK
<1>3. S!NothingLeftBehind
  BY <1>1 DEF Told, S!InStep, S!NothingLeftBehind, S!Busy
<1>4. S!GuardsFirst
  BY <1>1 DEF Told, S!ChildTells, S!GuardsFirst, S!Behind
<1>5. S!VerdictIsRight
  BY <1>1 DEF Told, S!ChildTells, S!ThreadTells, S!VerdictIsRight
<1>6. S!QuotaHolds
  BY <1>1 DEF S!Counted, S!QuotaHolds
<1> QED
  BY <1>2, <1>3, <1>4, <1>5, <1>6

(* Scripts are contained, always (sandbox.py and PythonNode): a script runs  *)
(* only behind all its guards and within the quota of its run, its verdict   *)
(* is what became of its child, and child and directory are gone with it,    *)
(* whatever the node, its thread and the child do in what order.             *)
THEOREM ScriptsSafe == Spec => []ScriptsContained
<1> DEFINE Inv == picked = "sandbox" => S!SandboxInv
<1>1. Init => Inv
  BY SandboxInit, EngineAndMediaAssumption DEF Init
<1>2. Inv /\ [Next]_vars => Inv'
  <2>1. ASSUME Inv, NextRetries \/ NextMedia \/ NextV1 \/ NextLog PROVE Inv'
    BY <2>1 DEF NextRetries, NextMedia, NextV1, NextLog
  <2>2. ASSUME Inv, NextSandbox PROVE Inv'
    BY <2>2, SandboxStep, EngineAndMediaAssumption DEF NextSandbox
  <2>3. ASSUME Inv, UNCHANGED vars PROVE Inv'
    BY <2>3 DEF vars, sandbox, S!SandboxInv, S!Typed, S!Counted, S!InStep, S!ChildTells,
                S!ThreadTells, S!Alive
  <2> QED
    BY <2>1, <2>2, <2>3 DEF Next
<1>3. Inv => ScriptsContained
  BY SandboxSound, EngineAndMediaAssumption DEF ScriptsContained
<1> QED
  BY <1>1, <1>2, <1>3, PTL DEF Spec

-----------------------------------------------------------------------------
(* The attempts of the nodes.                                                *)

(* What is assumed of the retry policy and of None.                          *)
LEMMA PolicyAssumed ==
    EngineAndMediaAssumption =>
        MaxAttempts \in Nat \ {0} /\ None \notin Nat /\ None \notin Seq(Nodes \X Nat)
BY DEF EngineAndMediaAssumption, A!AttemptsAssumption

(* Which nodes hand work to a thread, and how long its program is.           *)
LEMMA Programs ==
    ASSUME NEW kind \in A!InThread
    PROVE  /\ Len(A!Program(kind)) \in {2, 3}
           /\ kind \in {"append", "sql"} => Len(A!Program(kind)) = 2
           /\ DOMAIN A!Program(kind) = 1..Len(A!Program(kind))
<1>1. CASE kind = "append"
  <2>1. A!Program(kind) = <<"append", "size">>
    BY <1>1 DEF A!Program
  <2>2. Len(<<"append", "size">>) = 2 /\ DOMAIN <<"append", "size">> = 1..2
    OBVIOUS
  <2> QED
    BY <1>1, <2>1, <2>2
<1>2. CASE kind = "write"
  <2>1. A!Program(kind) = <<"truncate", "fill", "size">>
    BY <1>2 DEF A!Program
  <2>2. Len(<<"truncate", "fill", "size">>) = 3 /\ DOMAIN <<"truncate", "fill", "size">> = 1..3
    OBVIOUS
  <2> QED
    BY <1>2, <2>1, <2>2
<1>3. CASE kind = "read"
  <2>1. A!Program(kind) = <<"find", "read", "size">>
    BY <1>3 DEF A!Program
  <2>2. Len(<<"find", "read", "size">>) = 3 /\ DOMAIN <<"find", "read", "size">> = 1..3
    OBVIOUS
  <2> QED
    BY <1>3, <2>1, <2>2
<1>4. CASE kind = "delete"
  <2>1. A!Program(kind) = <<"exists", "unlink">>
    BY <1>4 DEF A!Program
  <2>2. Len(<<"exists", "unlink">>) = 2 /\ DOMAIN <<"exists", "unlink">> = 1..2
    OBVIOUS
  <2> QED
    BY <1>4, <2>1, <2>2
<1>5. CASE kind = "email"
  <2>1. A!Program(kind) = <<"connect", "send">>
    BY <1>5 DEF A!Program
  <2>2. Len(<<"connect", "send">>) = 2 /\ DOMAIN <<"connect", "send">> = 1..2
    OBVIOUS
  <2> QED
    BY <1>5, <2>1, <2>2
<1>6. CASE kind = "sql"
  <2>1. A!Program(kind) = <<"execute", "commit">>
    BY <1>6 DEF A!Program
  <2>2. Len(<<"execute", "commit">>) = 2 /\ DOMAIN <<"execute", "commit">> = 1..2
    OBVIOUS
  <2> QED
    BY <1>6, <2>1, <2>2
<1> QED
  BY <1>1, <1>2, <1>3, <1>4, <1>5, <1>6 DEF A!InThread

(* Where a thread is that appends, executes or commits, and what else a      *)
(* thread of FileNode in append mode or of a DatabaseNode can be about.      *)
LEMMA Places ==
    ASSUME NEW t, A!ThreadTyped(t), NEW step, A!At(t, step)
    PROVE  /\ t.pc \in DOMAIN A!Program(does[t.node])
           /\ step \in {"append", "size"} /\ does[t.node] = "append" =>
                 t.pc = IF step = "append" THEN 1 ELSE 2
           /\ does[t.node] = "append" => step \in {"append", "size"}
           /\ does[t.node] = "sql" => step \in {"execute", "commit"}
           /\ step \in {"execute", "commit"} =>
                 does[t.node] = "sql" /\ t.pc = IF step = "execute" THEN 1 ELSE 2
           /\ step = "append" => does[t.node] = "append"
           /\ step \in {"truncate", "fill", "exists", "unlink", "find", "read"} =>
                 does[t.node] \in {"write", "read", "delete"}
           /\ step \in {"connect", "send"} => does[t.node] = "email"
<1> DEFINE kind == does[t.node]
<1>1. t.pc \in DOMAIN A!Program(kind) /\ A!Program(kind)[t.pc] = step
  BY DEF A!At
<1>2. kind \in A!InThread
  BY DEF A!ThreadTyped
<1> HIDE DEF kind
<1>3. CASE kind = "append"
  <2>1. A!Program(kind) = <<"append", "size">>
    BY <1>3 DEF A!Program
  <2> QED
    BY <1>1, <1>3, <2>1 DEF kind
<1>4. CASE kind = "write"
  <2>1. A!Program(kind) = <<"truncate", "fill", "size">>
    BY <1>4 DEF A!Program
  <2> QED
    BY <1>1, <1>4, <2>1 DEF kind
<1>5. CASE kind = "read"
  <2>1. A!Program(kind) = <<"find", "read", "size">>
    BY <1>5 DEF A!Program
  <2> QED
    BY <1>1, <1>5, <2>1 DEF kind
<1>6. CASE kind = "delete"
  <2>1. A!Program(kind) = <<"exists", "unlink">>
    BY <1>6 DEF A!Program
  <2> QED
    BY <1>1, <1>6, <2>1 DEF kind
<1>7. CASE kind = "email"
  <2>1. A!Program(kind) = <<"connect", "send">>
    BY <1>7 DEF A!Program
  <2> QED
    BY <1>1, <1>7, <2>1 DEF kind
<1>8. CASE kind = "sql"
  <2>1. A!Program(kind) = <<"execute", "commit">>
    BY <1>8 DEF A!Program
  <2> QED
    BY <1>1, <1>8, <2>1 DEF kind
<1> QED
  BY <1>2, <1>3, <1>4, <1>5, <1>6, <1>7, <1>8 DEF A!InThread

(* Before the first attempt.                                                 *)
LEMMA AttemptsInit == ASSUME EngineAndMediaAssumption, A!Init PROVE A!AttemptsInv
<1>1. MaxAttempts \in Nat \ {0} /\ None \notin Nat
  BY PolicyAssumed
<1>2. A!Typed
  <2>1. \A n \in Nodes : task[n] \in A!Task
    BY <1>1 DEF A!Init, A!Task, A!Stages, A!Branches
  <2>2. task \in [Nodes -> A!Task]
    BY <2>1 DEF A!Init
  <2>3. context \in A!Context /\ A!Count(context) = runs /\ runs = 0
    BY DEF A!Init, A!Context, A!Branches, A!Count
  <2>4. threads = {} /\ processes = {}
    BY DEF A!Init
  <2> QED
    BY <2>2, <2>3, <2>4 DEF A!Typed, A!OneEach
<1>3. ASSUME NEW n \in Nodes PROVE A!CodesInStep(n) /\ A!NotYet(n)
  <2>1. task[n].stage = "ready" /\ task[n].attempt = 0 /\ task[n].codes = <<>>
    BY DEF A!Init
  <2>2. Len(task[n].codes) = 0
    BY <2>1
  <2> QED
    BY <1>1, <2>1, <2>2 DEF A!CodesInStep, A!NotYet, A!Is
<1>4. A!LinesInStep
  <2>1. A!Lines = <<>> /\ (file = None \/ file = <<>>)
    BY DEF A!Init, A!Lines
  <2>2. \A n \in Nodes : task[n].stage = "ready"
    BY DEF A!Init
  <2>3. threads = {}
    BY DEF A!Init
  <2>4. DOMAIN A!Lines = {}
    BY <2>1
  <2>5. <<>> \in Seq(Nodes \X Nat)
    OBVIOUS
  <2>6. file \in Seq(Nodes \X Nat) \cup {None}
    BY <2>1, <2>5
  <2>7. \A line : ~A!Written(line)
    BY <2>4 DEF A!Written
  <2> QED
    BY <2>2, <2>3, <2>4, <2>6, <2>7 DEF A!LinesInStep, A!Is
<1>5. A!RowsTyped /\ A!RowsOfThreads
  BY FS_EmptySet, SameCounts DEF A!Init, A!RowsTyped, A!RowsOfThreads
<1>6. ASSUME NEW n \in Nodes PROVE A!RowsInStep(n)
  <2>1. task[n].stage = "ready" /\ table = {} /\ threads = {}
    BY DEF A!Init
  <2> QED
    BY <2>1 DEF A!RowsInStep, A!Is
<1> QED
  BY <1>2, <1>3, <1>4, <1>5, <1>6 DEF A!AttemptsInv

(* A step of the engine's task of one node that starts no thread and leaves  *)
(* alone what they work on: only what is said of that node can change.       *)
LEMMA NodeMoves ==
    ASSUME A!AttemptsInv, NEW n \in Nodes, NEW r \in A!Task,
           task' = [task EXCEPT ![n] = r], r.attempt >= task[n].attempt,
           UNCHANGED <<does, file, table>>, threads' \subseteq threads,
           context' \in A!Context, runs' \in Nat, A!Count(context') = runs',
           \A p \in processes' : p \in Nodes \X Nat /\ does[p[1]] = "script",
           A!CodesInStep(n)', A!NotYet(n)',
           A!AllAppend /\ r.stage = "started" => ~A!Written(<<n, r.attempt>>),
           A!AllAppend /\ does[n] = "append" /\ r.stage \in {"done", "completed"} =>
               A!Written(<<n, r.attempt>>),
           does[n] = "sql" => A!RowsInStep(n)'
    PROVE  A!AttemptsInv'
<1>1. /\ A!Typed /\ (A!AllAppend => A!LinesInStep) /\ A!RowsTyped /\ A!RowsOfThreads
      /\ \A m \in Nodes : A!CodesInStep(m) /\ A!NotYet(m)
      /\ \A m \in Nodes : does[m] = "sql" => A!RowsInStep(m)
  BY DEF A!AttemptsInv
<1>2. task'[n] = r /\ \A m \in Nodes \ {n} : task'[m] = task[m]
  BY <1>1 DEF A!Typed
<1>3. \A m \in Nodes : /\ task[m].attempt \in Nat /\ task'[m].attempt \in Nat
                        /\ task'[m].attempt >= task[m].attempt
  BY <1>1, <1>2, PolicyAssumed, EngineAndMediaAssumption DEF A!Typed, A!Task
<1>4. A!Typed'
  <2>1. task' \in [Nodes -> A!Task]
    BY <1>1 DEF A!Typed
  <2>2. \A t \in threads' : A!ThreadTyped(t)'
    BY <1>1, <1>3 DEF A!Typed, A!ThreadTyped
  <2> QED
    BY <1>1, <2>1, <2>2 DEF A!Typed, A!OneEach
<1>5. ASSUME NEW m \in Nodes PROVE A!CodesInStep(m)' /\ A!NotYet(m)'
  <2>1. CASE m = n
    BY <2>1
  <2>2. CASE m # n
    BY <1>1, <1>2, <2>2 DEF A!CodesInStep, A!NotYet, A!Is, A!Mine
  <2> QED
    BY <2>1, <2>2
<1>6. ASSUME A!AllAppend' PROVE A!LinesInStep'
  <2>1. A!LinesInStep
    BY <1>1, <1>6 DEF A!AllAppend
  <2>2. A!Lines' = A!Lines /\ \A line : A!Written(line)' <=> A!Written(line)
    BY DEF A!Lines, A!Written
  <2>3. file' \in Seq(Nodes \X Nat) \cup {None}
    BY <2>1 DEF A!LinesInStep
  <2>4. \A i \in DOMAIN A!Lines : A!Lines[i][1] \in Nodes
    <3>1. A!Lines \in Seq(Nodes \X Nat)
      BY <2>1 DEF A!LinesInStep, A!Lines
    <3> QED
      BY <3>1
  <2>5. \A i \in DOMAIN A!Lines : A!Lines[i][2] \in 1..task'[A!Lines[i][1]].attempt
    BY <1>3, <2>1, <2>4 DEF A!LinesInStep
  <2>6. \A m \in Nodes :
          /\ task'[m].stage = "started" => ~A!Written(<<m, task'[m].attempt>>)
          /\ does[m] = "append" /\ task'[m].stage \in {"done", "completed"} =>
                A!Written(<<m, task'[m].attempt>>)
    BY <1>2, <1>6, <2>1, SMTT(30) DEF A!LinesInStep, A!Is, A!AllAppend
  <2>7. \A t \in threads : A!Line(t)' = A!Line(t)
    BY DEF A!Line
  <2> QED
    BY <2>1, <2>2, <2>3, <2>5, <2>6, <2>7 DEF A!LinesInStep, A!Is
<1>7. A!RowsTyped' /\ A!RowsOfThreads'
  BY <1>1 DEF A!RowsTyped, A!RowsOfThreads, A!Line
<1>8. ASSUME NEW m \in Nodes, does'[m] = "sql" PROVE A!RowsInStep(m)'
  <2>1. CASE m = n
    BY <1>8, <2>1
  <2>2. CASE m # n
    BY <1>1, <1>2, <1>8, <2>2 DEF A!RowsInStep, A!Is
  <2> QED
    BY <2>1, <2>2
<1> QED
  BY <1>4, <1>5, <1>6, <1>7, <1>8 DEF A!AttemptsInv

(* What is known of the task of a node.                                      *)
LEMMA OfTask ==
    ASSUME A!AttemptsInv, NEW n \in Nodes
    PROVE  /\ task[n] \in A!Task /\ task[n].attempt \in Nat
           /\ task[n].codes \in Seq(A!Codes) /\ Len(task[n].codes) \in Nat
           /\ A!CodesInStep(n) /\ A!NotYet(n)
           /\ (does[n] = "sql" => A!RowsInStep(n)) /\ (A!AllAppend => A!LinesInStep)
           /\ \A t \in threads : A!ThreadTyped(t)
           /\ \A p \in processes : p \in Nodes \X Nat /\ does[p[1]] = "script"
           /\ runs \in Nat /\ A!Count(context) = runs /\ context \in A!Context
BY PolicyAssumed, EngineAndMediaAssumption DEF A!AttemptsInv, A!Typed, A!Task

(* Attempt(): nothing is left of an attempt that has not been made.          *)
LEMMA AttemptKeeps ==
    ASSUME A!AttemptsInv, NEW n \in Nodes, A!Attempt(n)
    PROVE  A!AttemptsInv'
<1>1. PICK r : r = [task[n] EXCEPT !.stage = "started", !.attempt = task[n].attempt + 1,
                                   !.seen = A!Count(context)]
  OBVIOUS
<1>2. task' = [task EXCEPT ![n] = r]
  BY <1>1 DEF A!Attempt
<1>3. /\ A!CodesInStep(n) /\ A!Is(n, "ready") /\ task[n].attempt \in Nat /\ MaxAttempts \in Nat
      /\ task[n].attempt < MaxAttempts /\ Len(task[n].codes) = task[n].attempt
      /\ task[n] \in A!Task /\ A!Count(context) \in Nat
  BY OfTask, PolicyAssumed, EngineAndMediaAssumption DEF A!Attempt, A!CodesInStep
<1>4. /\ r \in A!Task /\ r.stage = "started" /\ r.attempt = task[n].attempt + 1
      /\ r.codes = task[n].codes
  <2>1. PICK k \in 0..MaxAttempts : k = task[n].attempt + 1
    BY <1>3
  <2>2. r = [task[n] EXCEPT !.stage = "started", !.attempt = k, !.seen = A!Count(context)]
    BY <1>1, <2>1
  <2>3. /\ r \in A!Task /\ r.stage = "started" /\ r.attempt = k
        /\ r.codes = task[n].codes
    BY <1>3, <2>2 DEF A!Task, A!Stages
  <2> QED
    BY <2>1, <2>3
<1>5. /\ context' \in A!Context /\ A!Count(context') = A!Count(context)
      /\ UNCHANGED <<does, threads, processes, file, table, runs>>
  BY OfTask DEF A!Attempt, A!Context, A!Branches, A!Count, A!world
<1>6. task'[n] = r
  BY <1>2 DEF A!AttemptsInv, A!Typed
<1>7. A!CodesInStep(n)'
  BY <1>3, <1>4, <1>6 DEF A!CodesInStep, A!Is
<1>8. A!NotYet(n)'
  <2>1. \A t \in threads : t.node = n => t.attempt <= task[n].attempt
    BY <1>3, OfTask DEF A!ThreadTyped
  <2> QED
    BY <1>3, <1>4, <1>5, <1>6, <2>1 DEF A!NotYet, A!Mine
<1>9. ASSUME A!AllAppend PROVE ~A!Written(<<n, r.attempt>>)
  BY <1>3, <1>4, <1>9, OfTask DEF A!LinesInStep, A!Written
<1>10. ASSUME does[n] = "sql" PROVE A!RowsInStep(n)'
  <2>1. A!RowsInStep(n)
    BY <1>10, OfTask
  <2>2. \A entry \in table : entry[1] = n => entry[2] \in 1..r.attempt /\ entry[2] # r.attempt
    BY <1>3, <1>4, <2>1 DEF A!RowsInStep
  <2>3. ASSUME "timeout" \notin A!ToSet(r.codes)
        PROVE  (\A t \in threads : t.node # n) /\ \A entry \in table : entry[1] # n
    BY <1>3, <1>4, <2>1, <2>3 DEF A!RowsInStep, A!Is
  <2> QED
    BY <1>4, <1>5, <1>6, <2>2, <2>3 DEF A!RowsInStep, A!Is
<1>11. /\ \A p \in processes' : p \in Nodes \X Nat /\ does[p[1]] = "script"
       /\ runs' \in Nat /\ A!Count(context') = runs' /\ threads' \subseteq threads
       /\ r.attempt >= task[n].attempt
  BY <1>3, <1>4, <1>5, OfTask
<1> QED
  BY <1>2, <1>4, <1>5, <1>7, <1>8, <1>9, <1>10, <1>11, NodeMoves

(* The executor's task is through, with or without a thread.                 *)
LEMMA DeliverKeeps ==
    ASSUME A!AttemptsInv, NEW n \in Nodes, NEW c \in A!Context, A!Deliver(n, c),
           task[n].stage \in {"started", "waiting"},
           UNCHANGED <<does, file, table>>, threads' \subseteq threads,
           processes' \subseteq processes, runs' \in Nat, A!Count(c) = runs',
           A!AllAppend /\ does[n] = "append" => A!Written(<<n, task[n].attempt>>),
           does[n] = "sql" => <<n, task[n].attempt>> \in table
                              /\ ("timeout" \notin A!ToSet(task[n].codes) =>
                                      \A t \in threads' : t.node # n)
    PROVE  A!AttemptsInv'
<1>1. PICK branch : branch = IF does[n] = "condition" THEN A!ConditionNode(c) ELSE None
  OBVIOUS
<1>2. branch \in A!Branches
  BY <1>1 DEF A!Branches, A!ConditionNode
<1>3. PICK r : r = [task[n] EXCEPT !.stage = "done", !.output = branch]
  OBVIOUS
<1>4. task' = [task EXCEPT ![n] = r]
  BY <1>1, <1>3 DEF A!Deliver
<1>5. task[n] \in A!Task /\ A!CodesInStep(n) /\ task[n].attempt \in Nat
  BY OfTask
<1>6. /\ r \in A!Task /\ r.stage = "done" /\ r.attempt = task[n].attempt
      /\ r.codes = task[n].codes
  BY <1>2, <1>3, <1>5 DEF A!Task, A!Stages
<1>7. context' = [c EXCEPT !.metrics = n, !.branches = IF branch = None THEN c.branches ELSE branch]
  BY <1>1 DEF A!Deliver
<1>8. context' \in A!Context /\ A!Count(context') = A!Count(c)
  BY <1>2, <1>7 DEF A!Context, A!Count
<1>9. task'[n] = r
  BY <1>4 DEF A!AttemptsInv, A!Typed
<1>10. A!CodesInStep(n)' /\ A!NotYet(n)'
  BY <1>5, <1>6, <1>9 DEF A!CodesInStep, A!NotYet, A!Is
<1>11. ASSUME does[n] = "sql" PROVE A!RowsInStep(n)'
  <2>1. A!RowsInStep(n)
    BY <1>11, OfTask
  <2>2. ASSUME "timeout" \notin A!ToSet(r.codes)
        PROVE  /\ \A t \in threads' : t.node # n
               /\ \A entry \in table : entry[1] = n => entry[2] = r.attempt
    BY <1>6, <1>11, <2>1, <2>2 DEF A!RowsInStep
  <2> QED
    BY <1>6, <1>9, <1>11, <2>1, <2>2 DEF A!RowsInStep, A!Is
<1>12. /\ \A p \in processes' : p \in Nodes \X Nat /\ does[p[1]] = "script"
       /\ A!Count(context') = runs' /\ r.attempt >= task[n].attempt /\ r.stage # "started"
  BY <1>5, <1>6, <1>8, OfTask
<1>13. A!AllAppend /\ does[n] = "append" => A!Written(<<n, r.attempt>>)
  BY <1>6
<1> QED
  BY <1>4, <1>6, <1>8, <1>10, <1>11, <1>12, <1>13, NodeMoves

(* The attempt fails: another follows only a code worth a retry.  A node     *)
(* with a DatabaseNode that has not timed out has stored nothing by then.    *)
LEMMA FailingKeeps ==
    ASSUME A!AttemptsInv, NEW n \in Nodes, NEW exception, A!Failing(n, exception),
           task[n].stage \in {"started", "waiting"},
           UNCHANGED <<does, file, table, context, runs>>, threads' \subseteq threads,
           processes' \subseteq processes,
           does[n] = "sql" /\ "timeout" \notin A!ToSet(task[n].codes) =>
               \/ exception = "TimeoutError"
               \/ (\A t \in threads' : t.node # n) /\ (\A entry \in table : entry[1] # n)
    PROVE  A!AttemptsInv'
<1>1. PICK code : code = A!classify_exception(n, exception)
  OBVIOUS
<1>2. code \in A!Codes /\ (exception = "TimeoutError" => code = "timeout")
  BY <1>1 DEF A!classify_exception, A!OwnCode, A!Codes, A!FileError, A!EmailError,
              A!DatabaseError
<1>3. PICK again : again = (A!Left(n) /\ A!is_retryable(code))
  OBVIOUS
<1>4. PICK stage : stage = IF again THEN "ready" ELSE "failed"
  OBVIOUS
<1>5. PICK codes : codes = Append(task[n].codes, code)
  OBVIOUS
<1>6. PICK r : r = [task[n] EXCEPT !.stage = stage, !.codes = codes]
  OBVIOUS
<1>7. task' = [task EXCEPT ![n] = r]
  BY <1>1, <1>3, <1>4, <1>5, <1>6 DEF A!Failing
<1>8. /\ task[n] \in A!Task /\ A!CodesInStep(n) /\ task[n].attempt \in Nat
      /\ task[n].codes \in Seq(A!Codes) /\ Len(task[n].codes) \in Nat
  BY OfTask
<1>9. /\ codes \in Seq(A!Codes) /\ Len(codes) = Len(task[n].codes) + 1
      /\ codes[Len(codes)] = code
      /\ \A i \in 1..Len(task[n].codes) : codes[i] = task[n].codes[i]
  BY <1>2, <1>5, <1>8
<1>10. stage \in {"ready", "failed"}
  BY <1>4
<1>11. r \in A!Task /\ r.stage = stage /\ r.attempt = task[n].attempt /\ r.codes = codes
  BY <1>6, <1>8, <1>9, <1>10 DEF A!Task, A!Stages
<1>12. task'[n] = r
  BY <1>7 DEF A!AttemptsInv, A!Typed
<1>13. A!CodesInStep(n)'
  <2>1. Len(codes) = task[n].attempt
    BY <1>8, <1>9 DEF A!CodesInStep, A!Is
  <2>2. stage = "ready" => task[n].attempt < MaxAttempts /\ code \notin A!Permanent
    BY <1>3, <1>4 DEF A!Left, A!is_retryable, A!Permanent
  <2>3. \A i \in 1..Len(task[n].codes) : task[n].codes[i] \notin A!Permanent
    BY <1>8 DEF A!CodesInStep, A!Is
  <2>4. ASSUME NEW i \in 1..Len(codes), codes[i] \in A!Permanent
        PROVE  stage = "failed" /\ i = Len(codes)
    BY <1>8, <1>9, <1>10, <2>2, <2>3, <2>4
  <2> QED
    BY <1>10, <1>11, <1>12, <2>1, <2>2, <2>4 DEF A!CodesInStep, A!Is
<1>14. A!NotYet(n)'
  BY <1>10, <1>11, <1>12 DEF A!NotYet, A!Is
<1>15. ASSUME does[n] = "sql" PROVE A!RowsInStep(n)'
  <2>1. A!RowsInStep(n)
    BY <1>15, OfTask
  <2>2. ASSUME "timeout" \notin A!ToSet(codes)
        PROVE  (\A t \in threads' : t.node # n) /\ \A entry \in table : entry[1] # n
    <3>1. \A i \in 1..Len(codes) : codes[i] # "timeout"
      BY <1>9, <2>2 DEF A!ToSet
    <3>2. code # "timeout"
      BY <1>8, <1>9, <3>1
    <3>3. \A i \in 1..Len(task[n].codes) : task[n].codes[i] # "timeout"
      BY <1>8, <1>9, <3>1
    <3>4. "timeout" \notin A!ToSet(task[n].codes)
      BY <1>8, <3>3 DEF A!ToSet
    <3> QED
      BY <1>2, <1>15, <3>2, <3>4
  <2> QED
    BY <1>10, <1>11, <1>12, <2>1, <2>2 DEF A!RowsInStep, A!Is
<1>16. /\ \A p \in processes' : p \in Nodes \X Nat /\ does[p[1]] = "script"
       /\ context' \in A!Context /\ runs' \in Nat /\ A!Count(context') = runs'
       /\ r.attempt >= task[n].attempt /\ r.stage \notin {"started", "done", "completed"}
  BY <1>8, <1>10, <1>11, OfTask
<1> QED
  BY <1>7, <1>11, <1>13, <1>14, <1>15, <1>16, NodeMoves

(* The engine's task only moves on to wait, or is cancelled.                 *)
LEMMA SetKeeps ==
    ASSUME A!AttemptsInv, NEW n \in Nodes, NEW stage \in {"waiting", "cancelled"},
           A!Set(n, stage), UNCHANGED <<does, file, table, context, runs, threads>>,
           \A p \in processes' : p \in Nodes \X Nat /\ does[p[1]] = "script",
           stage = "waiting" => A!Is(n, "started") /\ does[n] # "sql",
           stage = "cancelled" => task[n].stage \in {"ready", "started", "waiting", "done"}
    PROVE  A!AttemptsInv'
<1>1. PICK r : r = [task[n] EXCEPT !.stage = stage]
  OBVIOUS
<1>2. task' = [task EXCEPT ![n] = r]
  BY <1>1 DEF A!Set
<1>3. task[n] \in A!Task /\ A!CodesInStep(n) /\ task[n].attempt \in Nat
  BY OfTask
<1>4. /\ r \in A!Task /\ r.stage = stage /\ r.attempt = task[n].attempt
      /\ r.codes = task[n].codes
  BY <1>1, <1>3 DEF A!Task, A!Stages
<1>5. task'[n] = r
  BY <1>2 DEF A!AttemptsInv, A!Typed
<1>6. A!CodesInStep(n)' /\ A!NotYet(n)'
  BY <1>3, <1>4, <1>5 DEF A!CodesInStep, A!NotYet, A!Is
<1>7. ASSUME does[n] = "sql" PROVE A!RowsInStep(n)'
  <2>1. A!RowsInStep(n) /\ stage = "cancelled"
    BY <1>7, OfTask
  <2>2. ASSUME "timeout" \notin A!ToSet(r.codes)
        PROVE  /\ \A t \in threads : t.node = n => t.attempt = r.attempt
               /\ \A entry \in table : entry[1] = n => entry[2] = r.attempt
    BY <1>4, <2>1, <2>2 DEF A!RowsInStep
  <2> QED
    BY <1>4, <1>5, <2>1, <2>2 DEF A!RowsInStep, A!Is
<1>8. /\ context' \in A!Context /\ runs' \in Nat /\ A!Count(context') = runs'
      /\ r.attempt >= task[n].attempt /\ r.stage \notin {"started", "done", "completed"}
      /\ threads' \subseteq threads
  BY <1>3, <1>4, OfTask
<1> QED
  BY <1>2, <1>4, <1>6, <1>7, <1>8, NodeMoves

(* Resume(): the engine's task takes the outcome of an attempt that is       *)
(* through, whatever another node has left in the context meanwhile.         *)
LEMMA ResumeKeeps ==
    ASSUME A!AttemptsInv, NEW n \in Nodes, A!Resume(n)
    PROVE  A!AttemptsInv'
<1>1. PICK branches : branches = IF context.branches = None THEN task[n].output
                                 ELSE context.branches
  OBVIOUS
<1>2. PICK r : r = [task[n] EXCEPT !.stage = "completed", !.metrics = context.metrics,
                                   !.branches = branches]
  OBVIOUS
<1>3. task' = [task EXCEPT ![n] = r]
  BY <1>1, <1>2 DEF A!Resume
<1>4. task[n] \in A!Task /\ A!CodesInStep(n) /\ task[n].attempt \in Nat /\ context \in A!Context
  BY OfTask
<1>5. branches \in A!Branches /\ context.metrics \in Nodes \cup {None}
  BY <1>1, <1>4 DEF A!Task, A!Context
<1>6. /\ r \in A!Task /\ r.stage = "completed" /\ r.attempt = task[n].attempt
      /\ r.codes = task[n].codes
  BY <1>2, <1>4, <1>5 DEF A!Task, A!Stages
<1>7. task'[n] = r /\ A!Is(n, "done")
  BY <1>3 DEF A!AttemptsInv, A!Typed, A!Resume
<1>8. A!CodesInStep(n)' /\ A!NotYet(n)'
  BY <1>4, <1>6, <1>7 DEF A!CodesInStep, A!NotYet, A!Is
<1>9. ASSUME does[n] = "sql" PROVE A!RowsInStep(n)'
  <2>1. A!RowsInStep(n)
    BY <1>9, OfTask
  <2>2. ASSUME "timeout" \notin A!ToSet(r.codes)
        PROVE  /\ \A t \in threads : t.node # n
               /\ \A entry \in table : entry[1] = n => entry[2] = r.attempt
    BY <1>6, <1>7, <2>1, <2>2 DEF A!RowsInStep, A!Is
  <2>3. UNCHANGED <<threads, table>>
    BY DEF A!Resume, A!world
  <2> QED
    BY <1>6, <1>7, <2>1, <2>2, <2>3 DEF A!RowsInStep, A!Is
<1>10. /\ context' \in A!Context /\ runs' \in Nat /\ A!Count(context') = runs'
       /\ r.attempt >= task[n].attempt /\ threads' \subseteq threads
       /\ \A p \in processes' : p \in Nodes \X Nat /\ does[p[1]] = "script"
  <2>1. /\ context' = [context EXCEPT !.metrics = None, !.branches = None]
        /\ UNCHANGED <<does, threads, processes, runs>>
    BY DEF A!Resume
  <2>2. context' \in A!Context /\ A!Count(context') = A!Count(context)
    BY <1>4, <2>1 DEF A!Context, A!Branches, A!Count
  <2> QED
    BY <1>4, <1>6, <2>1, <2>2, OfTask
<1>11. A!AllAppend /\ does[n] = "append" => A!Written(<<n, r.attempt>>)
  BY <1>6, <1>7, OfTask DEF A!LinesInStep
<1>12. UNCHANGED <<does, file, table>>
  BY DEF A!Resume, A!world
<1> QED
  BY <1>3, <1>6, <1>8, <1>9, <1>10, <1>11, <1>12, NodeMoves

(* Executors that do not wait: an increment counts once and is never lost.   *)
LEMMA RunImmediateKeeps ==
    ASSUME A!AttemptsInv, NEW n \in Nodes, A!RunImmediate(n)
    PROVE  A!AttemptsInv'
<1>1. context \in A!Context /\ runs \in Nat /\ A!Count(context) = runs
  BY OfTask
<1>2. PICK c : c = CASE does[n] = "start" -> A!StartNode(context, n)
                     [] does[n] = "increment" -> A!VariableNode(context, n)
                     [] does[n] = "end" -> A!EndNode(context, n)
                     [] OTHER -> context
  OBVIOUS
<1>3. A!Deliver(n, c)
  BY <1>2 DEF A!RunImmediate
<1>4. c \in A!Context /\ A!Count(c) = runs' /\ runs' \in Nat
  <2>1. runs' = IF does[n] = "increment" THEN runs + 1 ELSE runs
    BY DEF A!RunImmediate
  <2>2. None \notin Nat
    BY PolicyAssumed, EngineAndMediaAssumption
  <2>3. CASE does[n] = "start"
    <3>1. c = [context EXCEPT !.count = IF context.count = None THEN 0 ELSE context.count]
      BY <1>2, <2>3 DEF A!StartNode
    <3> QED
      BY <1>1, <2>1, <2>2, <2>3, <3>1 DEF A!Context, A!Count
  <2>4. CASE does[n] = "increment"
    <3>1. PICK k \in Nat : k = A!Count(context) + 1
      BY <1>1
    <3>2. c = [context EXCEPT !.count = k]
      BY <1>2, <2>4, <3>1 DEF A!VariableNode
    <3>3. c \in A!Context /\ c.count = k
      BY <1>1, <3>2 DEF A!Context
    <3>4. A!Count(c) = k
      BY <2>2, <3>1, <3>3 DEF A!Count
    <3> QED
      BY <1>1, <2>1, <2>4, <3>1, <3>3, <3>4
  <2>5. CASE does[n] = "end"
    <3>1. PICK k \in Nat : k = A!Count(context)
      BY <1>1
    <3>2. c = [context EXCEPT !.result = k]
      BY <1>2, <2>5, <3>1 DEF A!EndNode
    <3> QED
      BY <1>1, <2>1, <2>5, <3>2 DEF A!Context, A!Count
  <2>6. CASE does[n] \notin {"start", "increment", "end"}
    BY <1>1, <1>2, <2>1, <2>6
  <2> QED
    BY <2>3, <2>4, <2>5, <2>6
<1>5. /\ UNCHANGED <<does, threads, processes, file, table>> /\ A!Is(n, "started")
      /\ does[n] \in {"start", "increment", "condition", "end"}
  BY DEF A!RunImmediate, A!world, A!Immediate
<1> QED
  BY <1>3, <1>4, <1>5, DeliverKeeps DEF A!Is

(* The configuration is refused: a permanent error.                          *)
LEMMA RefusedKeeps ==
    ASSUME A!AttemptsInv, NEW n \in Nodes, A!Refused(n)
    PROVE  A!AttemptsInv'
<1>1. PICK exception : A!Failing(n, exception)
  BY DEF A!Refused
<1>2. /\ A!Is(n, "started") /\ does[n] = "refused"
      /\ UNCHANGED <<does, file, table, context, runs, threads, processes>>
  BY DEF A!Refused, A!world
<1> QED
  BY <1>1, <1>2, FailingKeeps DEF A!Is

(* The executors that start a process or wait for the clock.                 *)
LEMMA RunProcessKeeps ==
    ASSUME A!AttemptsInv, NEW n \in Nodes, A!RunProcess(n) \/ A!RunDelay(n)
    PROVE  A!AttemptsInv'
<1>1. /\ A!Set(n, "waiting") /\ A!Is(n, "started") /\ does[n] \in {"script", "delay"}
      /\ UNCHANGED <<does, file, table, context, runs, threads>>
  BY DEF A!RunProcess, A!RunDelay, A!world
<1>2. \A p \in processes' : p \in Nodes \X Nat /\ does[p[1]] = "script"
  BY OfTask DEF A!RunProcess, A!RunDelay
<1> QED
  BY <1>1, <1>2, SetKeeps

(* A cancelled node is not tried again.                                      *)
LEMMA CancelledKeeps ==
    ASSUME A!AttemptsInv, NEW n \in Nodes, A!Cancelled(n)
    PROVE  A!AttemptsInv'
<1>1. /\ A!Set(n, "cancelled") /\ task[n].stage \in {"ready", "started", "waiting", "done"}
      /\ UNCHANGED <<does, file, table, context, runs, threads, processes>>
  BY DEF A!Cancelled, A!world
<1>2. \A p \in processes' : p \in Nodes \X Nat /\ does[p[1]] = "script"
  BY <1>1, OfTask
<1> QED
  BY <1>1, <1>2, SetKeeps

(* The answers of a process and of the clock.                                *)
LEMMA ProcessAnswersKeeps ==
    ASSUME A!AttemptsInv, NEW n \in Nodes, A!ProcessAnswers(n)
    PROVE  A!AttemptsInv'
<1>1. /\ A!Is(n, "waiting") /\ <<n, task[n].attempt>> \in processes
      /\ processes' \subseteq processes
      /\ UNCHANGED <<does, file, table, threads, runs>>
  BY DEF A!ProcessAnswers, A!world
<1>2. does[n] = "script" /\ context \in A!Context /\ A!Count(context) = runs /\ runs \in Nat
  <2>1. PICK p \in processes : p = <<n, task[n].attempt>>
    BY <1>1
  <2> QED
    BY <2>1, OfTask
<1>3. CASE A!Deliver(n, context)
  BY <1>1, <1>2, <1>3, DeliverKeeps DEF A!Is
<1>4. CASE A!Failing(n, "RuntimeError") /\ UNCHANGED context
  BY <1>1, <1>2, <1>4, FailingKeeps DEF A!Is
<1> QED
  BY <1>3, <1>4 DEF A!ProcessAnswers

(* A process killed at the node's time limit, and wait_for() running out.    *)
LEMMA TimesOutKeeps ==
    ASSUME A!AttemptsInv, NEW n \in Nodes, A!ProcessKilled(n) \/ A!TimesOut(n)
    PROVE  A!AttemptsInv'
<1>1. /\ A!Is(n, "waiting") /\ A!Failing(n, "TimeoutError") /\ processes' \subseteq processes
      /\ UNCHANGED <<does, file, table, context, runs, threads>>
  BY DEF A!ProcessKilled, A!TimesOut, A!world
<1> QED
  BY <1>1, FailingKeeps DEF A!Is

(* A delay that is woken or is over.                                         *)
LEMMA DelayKeeps ==
    ASSUME A!AttemptsInv, NEW n \in Nodes, A!DelayEnds(n) \/ A!DelayElapses(n)
    PROVE  A!AttemptsInv'
<1>1. /\ A!Is(n, "waiting") /\ does[n] = "delay" /\ A!Deliver(n, context)
      /\ UNCHANGED <<does, file, table, threads, processes, runs>>
  BY DEF A!DelayEnds, A!DelayElapses, A!world
<1>2. context \in A!Context /\ A!Count(context) = runs /\ runs \in Nat
  BY OfTask
<1> QED
  BY <1>1, <1>2, DeliverKeeps DEF A!Is

(* The thread of the current attempt answers: when it is through with its    *)
(* program its line and its row are there, when it raised its row is not.    *)
LEMMA ThreadAnswersKeeps ==
    ASSUME A!AttemptsInv, NEW n \in Nodes, A!ThreadAnswers(n)
    PROVE  A!AttemptsInv'
<1>1. PICK t \in A!Mine(n) :
         /\ A!Finished(t) /\ threads' = threads \ {t}
         /\ IF t.pc = 99 THEN A!Failing(n, t.saw) /\ UNCHANGED context ELSE A!Deliver(n, context)
  BY DEF A!ThreadAnswers
<1>2. /\ A!Is(n, "waiting") /\ UNCHANGED <<does, processes, file, table, runs>>
      /\ threads' \subseteq threads
  BY <1>1 DEF A!ThreadAnswers, A!world
<1>3. /\ t \in threads /\ t.node = n /\ t.attempt = task[n].attempt /\ A!ThreadTyped(t)
      /\ context \in A!Context /\ A!Count(context) = runs /\ runs \in Nat
      /\ A!Line(t) = <<n, task[n].attempt>>
  BY <1>1, OfTask DEF A!Mine, A!Line
<1>4. ASSUME does[n] = "sql", "timeout" \notin A!ToSet(task[n].codes)
      PROVE  \A u \in threads' : u.node # n
  <2>1. \A u \in threads : u.node = n => u.attempt = task[n].attempt
    BY <1>4, OfTask DEF A!RowsInStep
  <2>2. \A u \in threads : u.node = n => u = t
    BY <1>3, <2>1 DEF A!AttemptsInv, A!Typed, A!OneEach
  <2> QED
    BY <1>1, <2>2
<1>5. CASE t.pc = 99
  <2>1. ASSUME does[n] = "sql", "timeout" \notin A!ToSet(task[n].codes)
        PROVE  \A entry \in table : entry[1] # n
    <3>1. <<n, task[n].attempt>> \notin table
      BY <1>3, <1>5, <2>1 DEF A!AttemptsInv, A!RowsOfThreads
    <3>2. \A entry \in table : entry[1] = n => entry[2] = task[n].attempt
      BY <2>1, OfTask DEF A!RowsInStep
    <3>3. \A entry \in table : entry = <<entry[1], entry[2]>>
      BY DEF A!AttemptsInv, A!RowsTyped
    <3> QED
      BY <3>1, <3>2, <3>3
  <2> QED
    BY <1>1, <1>2, <1>4, <1>5, <2>1, FailingKeeps DEF A!Is
<1>6. CASE t.pc # 99
  <2>1. t.pc > Len(A!Program(does[n])) /\ does[n] \in A!InThread
        /\ t.pc \in 1..(Len(A!Program(does[n])) + 1)
    BY <1>1, <1>3, <1>6 DEF A!Finished, A!ThreadTyped
  <2>2. does[n] \in {"append", "sql"} => t.pc = 3
    <3>1. PICK kind : kind = does[n]
      OBVIOUS
    <3>2. PICK length : length = Len(A!Program(kind))
      OBVIOUS
    <3>3. kind \in {"append", "sql"} => length = 2
      BY <2>1, <3>1, <3>2, Programs
    <3>4. t.pc > length /\ t.pc \in 1..(length + 1)
      BY <2>1, <3>1, <3>2
    <3> QED
      BY <3>1, <3>3, <3>4
  <2>3. A!AllAppend /\ does[n] = "append" => A!Written(<<n, task[n].attempt>>)
    BY <1>3, <2>2, OfTask DEF A!LinesInStep
  <2>4. does[n] = "sql" => <<n, task[n].attempt>> \in table
    BY <1>3, <2>2 DEF A!AttemptsInv, A!RowsOfThreads
  <2> QED
    BY <1>1, <1>2, <1>3, <1>4, <1>6, <2>3, <2>4, DeliverKeeps DEF A!Is
<1> QED
  BY <1>5, <1>6

(* run() of the executors with a thread: the thread is the first of its      *)
(* attempt and has its line and its row still to write.                      *)
LEMMA RunInThreadKeeps ==
    ASSUME A!AttemptsInv, NEW n \in Nodes, A!RunInThread(n)
    PROVE  A!AttemptsInv'
<1>1. PICK u : u = [node |-> n, attempt |-> task[n].attempt, pc |-> 1, saw |-> None]
  OBVIOUS
<1>2. /\ A!Is(n, "started") /\ does[n] \in A!InThread /\ threads' = threads \cup {u}
      /\ UNCHANGED <<does, context, processes, file, table, runs>>
  BY <1>1 DEF A!RunInThread, A!world
<1>3. PICK r : r = [task[n] EXCEPT !.stage = "waiting"]
  OBVIOUS
<1>4. task' = [task EXCEPT ![n] = r]
  BY <1>3 DEF A!RunInThread, A!Set
<1>5. /\ task[n] \in A!Task /\ A!CodesInStep(n) /\ task[n].attempt \in Nat /\ A!NotYet(n)
      /\ Len(task[n].codes) \in Nat
  BY OfTask
<1>6. /\ r \in A!Task /\ r.stage = "waiting" /\ r.attempt = task[n].attempt
      /\ r.codes = task[n].codes
  BY <1>3, <1>5 DEF A!Task, A!Stages
<1>7. task'[n] = r /\ \A m \in Nodes \ {n} : task'[m] = task[m]
  BY <1>4 DEF A!AttemptsInv, A!Typed
<1>8. \A m \in Nodes : task'[m].attempt = task[m].attempt /\ task'[m].codes = task[m].codes
  BY <1>6, <1>7
<1>9. task[n].attempt \in 1..task[n].attempt
  BY <1>2, <1>5 DEF A!CodesInStep, A!Is
<1>10. \A t \in threads : ~(t.node = n /\ t.attempt = task[n].attempt)
  BY <1>2, <1>5 DEF A!NotYet, A!Mine
<1>11. A!ThreadTyped(u)'
  <2>1. u.node = n /\ u.attempt = task[n].attempt /\ u.pc = 1
    BY <1>1
  <2>2. 1 \in 1..(Len(A!Program(does[n])) + 1)
    <3>1. PICK kind \in A!InThread : kind = does[n]
      BY <1>2
    <3>2. PICK length : length = Len(A!Program(kind))
      OBVIOUS
    <3>3. length \in {2, 3}
      BY <3>2, Programs
    <3> QED
      BY <3>1, <3>2, <3>3
  <2>3. u = [node |-> u.node, attempt |-> u.attempt, pc |-> u.pc, saw |-> u.saw]
    BY <1>1
  <2> QED
    BY <1>2, <1>8, <1>9, <2>1, <2>2, <2>3 DEF A!ThreadTyped
<1>12. A!Typed'
  <2>1. task' \in [Nodes -> A!Task]
    BY <1>4, <1>6 DEF A!AttemptsInv, A!Typed
  <2>2. \A t \in threads' : A!ThreadTyped(t)'
    BY <1>2, <1>8, <1>11, OfTask DEF A!ThreadTyped
  <2>3. A!OneEach'
    <3>1. A!OneEach
      BY DEF A!AttemptsInv, A!Typed
    <3>2. u.node = n /\ u.attempt = task[n].attempt
      BY <1>1
    <3> QED
      BY <1>2, <1>10, <3>1, <3>2 DEF A!OneEach
  <2> QED
    BY <1>2, <2>1, <2>2, <2>3, OfTask DEF A!Typed
<1>13. ASSUME NEW m \in Nodes PROVE A!CodesInStep(m)' /\ A!NotYet(m)'
  <2>1. CASE m = n
    BY <1>2, <1>5, <1>6, <1>7, <2>1 DEF A!CodesInStep, A!NotYet, A!Is
  <2>2. CASE m # n
    <3>1. A!CodesInStep(m) /\ A!NotYet(m) /\ task'[m] = task[m] /\ u.node = n
      BY <1>1, <1>7, <2>2, OfTask
    <3> QED
      BY <1>2, <2>2, <3>1 DEF A!CodesInStep, A!NotYet, A!Is, A!Mine
  <2> QED
    BY <2>1, <2>2
<1>14. ASSUME A!AllAppend' PROVE A!LinesInStep'
  <2>1. A!LinesInStep
    BY <1>2, <1>14, OfTask DEF A!AllAppend
  <2>2. A!Lines' = A!Lines /\ \A line : A!Written(line)' <=> A!Written(line)
    BY <1>2 DEF A!Lines, A!Written
  <2>3. \A i \in DOMAIN A!Lines : A!Lines[i][1] \in Nodes
    <3>1. A!Lines \in Seq(Nodes \X Nat)
      BY <2>1 DEF A!LinesInStep, A!Lines
    <3> QED
      BY <3>1
  <2>4. \A i \in DOMAIN A!Lines : A!Lines[i][2] \in 1..task'[A!Lines[i][1]].attempt
    BY <1>8, <2>1, <2>3 DEF A!LinesInStep
  <2>5. \A t \in threads' : does[t.node] = "append" =>
           /\ t.pc = 1 => ~A!Written(A!Line(t))
           /\ t.pc \in {2, 3} => A!Written(A!Line(t))
    <3>1. u.pc = 1 /\ A!Line(u) = <<n, task[n].attempt>>
      BY <1>1 DEF A!Line
    <3>2. ~A!Written(A!Line(u))
      BY <1>2, <2>1, <3>1 DEF A!LinesInStep
    <3> QED
      BY <1>2, <2>1, <3>1, <3>2 DEF A!LinesInStep
  <2>6. \A m \in Nodes :
          /\ task'[m].stage = "started" => ~A!Written(<<m, task'[m].attempt>>)
          /\ does[m] = "append" /\ task'[m].stage \in {"done", "completed"} =>
                A!Written(<<m, task'[m].attempt>>)
    BY <1>6, <1>7, <2>1 DEF A!LinesInStep, A!Is
  <2>7. \A t : A!Line(t)' = A!Line(t)
    BY DEF A!Line
  <2> QED
    BY <1>2, <2>1, <2>2, <2>4, <2>5, <2>6, <2>7 DEF A!LinesInStep, A!Is
<1>15. A!RowsTyped' /\ A!RowsOfThreads'
  <2>1. ASSUME does[n] = "sql" PROVE A!Line(u) \notin table
    BY <1>1, <1>2, <2>1, OfTask DEF A!RowsInStep, A!Line
  <2>2. u.pc = 1 /\ u.node = n
    BY <1>1
  <2>3. \A t : A!Line(t)' = A!Line(t)
    BY DEF A!Line
  <2> QED
    BY <1>2, <2>1, <2>2, <2>3 DEF A!AttemptsInv, A!RowsTyped, A!RowsOfThreads
<1>16. ASSUME NEW m \in Nodes, does'[m] = "sql" PROVE A!RowsInStep(m)'
  <2>1. A!RowsInStep(m)
    BY <1>2, <1>16, OfTask
  <2>2. CASE m = n
    <3>1. ASSUME "timeout" \notin A!ToSet(r.codes)
          PROVE  /\ \A t \in threads' : t.node = n => t.attempt = r.attempt
                 /\ \A entry \in table : entry[1] # n
      <4>1. u.attempt = r.attempt
        BY <1>1, <1>6
      <4> QED
        BY <1>2, <1>6, <2>1, <2>2, <3>1, <4>1 DEF A!RowsInStep, A!Is
    <3> QED
      BY <1>2, <1>6, <1>7, <2>1, <2>2, <3>1 DEF A!RowsInStep, A!Is
  <2>3. CASE m # n
    <3>1. task'[m] = task[m] /\ u.node # m
      BY <1>1, <1>7, <2>3
    <3> QED
      BY <1>2, <2>1, <3>1 DEF A!RowsInStep, A!Is
  <2> QED
    BY <2>2, <2>3
<1> QED
  BY <1>12, <1>13, <1>14, <1>15, <1>16 DEF A!AttemptsInv

(* A thread that nobody waits for ends, and so does a process.               *)
LEMMA EndsKeep ==
    ASSUME A!AttemptsInv, threads' \subseteq threads, processes' \subseteq processes,
           UNCHANGED <<does, task, context, file, table, runs>>
    PROVE  A!AttemptsInv'
<1>1. A!Typed'
  BY DEF A!AttemptsInv, A!Typed, A!OneEach, A!ThreadTyped
<1>2. ASSUME NEW n \in Nodes PROVE A!CodesInStep(n)' /\ A!NotYet(n)'
  BY OfTask DEF A!CodesInStep, A!NotYet, A!Is, A!Mine
<1>3. ASSUME A!AllAppend' PROVE A!LinesInStep'
  <2>1. A!LinesInStep
    BY <1>3 DEF A!AllAppend, A!AttemptsInv
  <2>2. A!Lines' = A!Lines /\ \A line : A!Written(line)' <=> A!Written(line)
    BY DEF A!Lines, A!Written
  <2>3. \A t : A!Line(t)' = A!Line(t)
    BY DEF A!Line
  <2> QED
    BY <2>1, <2>2, <2>3 DEF A!LinesInStep, A!Is
<1>4. A!RowsTyped' /\ A!RowsOfThreads'
  BY DEF A!AttemptsInv, A!RowsTyped, A!RowsOfThreads, A!Line
<1>5. ASSUME NEW n \in Nodes, does'[n] = "sql" PROVE A!RowsInStep(n)'
  BY <1>5, OfTask DEF A!RowsInStep, A!Is
<1> QED
  BY <1>1, <1>2, <1>3, <1>4, <1>5 DEF A!AttemptsInv

(* One step of a thread: u is the thread after it, line whether it wrote its *)
(* line, row whether it stored its row.                                      *)
LEMMA ThreadMoves ==
    ASSUME A!AttemptsInv, NEW t \in threads, NEW u,
           u.node = t.node, u.attempt = t.attempt, A!ThreadTyped(u),
           threads' = (threads \ {t}) \cup {u},
           UNCHANGED <<does, task, context, processes, runs>>,
           A!AllAppend =>
               \/ does[t.node] = "append" /\ t.pc = 1 /\ u.pc = 2 /\ file' = A!Appended(t)
               \/ does[t.node] = "append" /\ t.pc = 2 /\ u.pc = 3 /\ file' = file
               \/ (does[t.node] = "append" => u.pc = 99) /\ file' = file,
           \/ does[t.node] = "sql" /\ t.pc # 3 /\ u.pc = 3 /\ table' = table \cup {A!Line(t)}
           \/ (does[t.node] = "sql" => t.pc # 3 /\ u.pc # 3) /\ table' = table
    PROVE  A!AttemptsInv'
<1>1. /\ A!ThreadTyped(t) /\ A!OneEach /\ A!Line(u) = A!Line(t)
      /\ \A v \in threads : A!ThreadTyped(v)
      /\ A!Line(t) = <<t.node, t.attempt>>
  BY OfTask DEF A!AttemptsInv, A!Typed, A!Line
<1>2. \A v : A!Line(v)' = A!Line(v) /\ A!Line(v) = <<v.node, v.attempt>>
  BY DEF A!Line
<1>3. \A v \in threads \ {t} : A!Line(v) # A!Line(t)
  BY <1>1, <1>2 DEF A!OneEach
<1>4. A!Typed'
  <2>1. \A v \in threads' : A!ThreadTyped(v)'
    BY <1>1 DEF A!ThreadTyped
  <2>2. A!OneEach'
    BY <1>1 DEF A!OneEach
  <2> QED
    BY <2>1, <2>2 DEF A!AttemptsInv, A!Typed
<1>5. ASSUME NEW n \in Nodes PROVE A!CodesInStep(n)' /\ A!NotYet(n)'
  <2>1. A!CodesInStep(n) /\ A!NotYet(n)
    BY OfTask
  <2> QED
    BY <2>1 DEF A!CodesInStep, A!NotYet, A!Is, A!Mine
<1>6. \A n \in Nodes : A!Is(n, "started") => A!Line(t) # <<n, task[n].attempt>>
  BY <1>1, OfTask DEF A!NotYet, A!Mine
<1>7. t.node \in Nodes /\ t.attempt \in 1..task[t.node].attempt /\ task[t.node].attempt \in Nat
  BY <1>1, OfTask DEF A!ThreadTyped
<1>8. ASSUME A!AllAppend' PROVE A!LinesInStep'
  <2>1. A!LinesInStep /\ A!AllAppend
    BY <1>8 DEF A!AllAppend, A!AttemptsInv
  <2>2. A!Lines \in Seq(Nodes \X Nat)
    BY <2>1 DEF A!LinesInStep, A!Lines
  <2>3. CASE does[t.node] = "append" /\ t.pc = 1 /\ u.pc = 2 /\ file' = A!Appended(t)
    <3>1. file' = Append(A!Lines, A!Line(t)) /\ A!Line(t) \in Nodes \X Nat
      BY <1>1, <1>7, <2>3 DEF A!Appended
    <3>2. file' \in Seq(Nodes \X Nat)
      BY <2>2, <3>1
    <3>3. A!Lines' = Append(A!Lines, A!Line(t))
      <4>1. file' # None
        BY <3>2, PolicyAssumed, EngineAndMediaAssumption
      <4> QED
        BY <3>1, <4>1 DEF A!Lines
    <3>4. PICK old : old = A!Lines
      OBVIOUS
    <3>5. PICK new : new = A!Lines'
      OBVIOUS
    <3>6. PICK line \in Nodes \X Nat : line = A!Line(t)
      BY <3>1
    <3>7. /\ old \in Seq(Nodes \X Nat) /\ new = Append(old, line)
          /\ DOMAIN old = 1..Len(old) /\ DOMAIN new = 1..(Len(old) + 1) /\ Len(old) \in Nat
          /\ new[Len(old) + 1] = line /\ \A i \in 1..Len(old) : new[i] = old[i]
      BY <2>2, <3>3, <3>4, <3>5, <3>6
    <3>8. \A x : A!Written(x)' <=> A!Written(x) \/ x = line
      <4>1. \A x : A!Written(x) <=> \E i \in 1..Len(old) : old[i] = x
        BY <3>4, <3>7 DEF A!Written
      <4>2. \A x : A!Written(x)' <=> \E i \in 1..(Len(old) + 1) : new[i] = x
        BY <3>5, <3>7 DEF A!Written
      <4> QED
        BY <3>7, <4>1, <4>2
    <3>9. ~A!Written(line)
      BY <2>1, <2>3, <3>6 DEF A!LinesInStep
    <3>10. \A i \in 1..Len(old) : old[i] # line
      BY <3>4, <3>7, <3>9 DEF A!Written
    <3>11. \A i, j \in DOMAIN new : new[i] = new[j] => i = j
      <4>1. \A i, j \in 1..Len(old) : old[i] = old[j] => i = j
        BY <2>1, <3>4, <3>7 DEF A!LinesInStep
      <4> QED
        BY <3>7, <3>10, <4>1
    <3>12. \A i \in DOMAIN new : new[i][2] \in 1..task[new[i][1]].attempt
      <4>1. \A i \in 1..Len(old) : old[i][2] \in 1..task[old[i][1]].attempt
        BY <2>1, <3>4, <3>7 DEF A!LinesInStep
      <4>2. line[1] = t.node /\ line[2] = t.attempt
        BY <1>1, <3>6
      <4>3. line[2] \in 1..task[line[1]].attempt
        BY <1>7, <4>2
      <4> QED
        BY <3>7, <4>1, <4>3
    <3>13. \A v \in threads' : does[v.node] = "append" =>
              /\ v.pc = 1 => ~A!Written(A!Line(v))'
              /\ v.pc \in {2, 3} => A!Written(A!Line(v))'
      <4>1. ASSUME NEW v \in threads \ {t}, does[v.node] = "append"
            PROVE  /\ v.pc = 1 => ~A!Written(A!Line(v))'
                   /\ v.pc \in {2, 3} => A!Written(A!Line(v))'
        <5>1. /\ v.pc = 1 => ~A!Written(A!Line(v))
              /\ v.pc \in {2, 3} => A!Written(A!Line(v))
          BY <2>1, <4>1 DEF A!LinesInStep
        <5>2. A!Line(v) # line /\ A!Line(v)' = A!Line(v)
          BY <1>2, <1>3, <3>6
        <5>3. A!Written(A!Line(v))' <=> A!Written(A!Line(v))
          <6>1. PICK x : x = A!Line(v)
            OBVIOUS
          <6>2. A!Written(x)' <=> A!Written(x)
            BY <3>8, <5>2, <6>1
          <6> QED
            BY <5>2, <6>1, <6>2 DEF A!Written
        <5> QED
          BY <5>1, <5>3
      <4>2. A!Written(A!Line(u))'
        <5>1. A!Written(line)'
          BY <3>8
        <5>2. A!Line(u)' = line
          BY <1>1, <1>2, <3>6
        <5> QED
          BY <5>1, <5>2 DEF A!Written
      <4> QED
        BY <2>3, <4>1, <4>2
    <3>14. \A n \in Nodes :
              /\ A!Is(n, "started") => ~A!Written(<<n, task[n].attempt>>)'
              /\ does[n] = "append" /\ (A!Is(n, "done") \/ A!Is(n, "completed")) =>
                    A!Written(<<n, task[n].attempt>>)'
      <4>1. ASSUME NEW n \in Nodes
            PROVE  A!Written(<<n, task[n].attempt>>)'
                     <=> A!Written(<<n, task[n].attempt>>) \/ <<n, task[n].attempt>> = line
        <5>1. PICK x : x = <<n, task[n].attempt>>
          OBVIOUS
        <5>2. A!Written(x)' <=> A!Written(x) \/ x = line
          BY <3>8
        <5> QED
          BY <5>1, <5>2 DEF A!Written
      <4> QED
        BY <1>6, <2>1, <3>6, <4>1 DEF A!LinesInStep
    <3>15. \A i \in DOMAIN A!Lines' : A!Lines'[i][2] \in 1..task[A!Lines'[i][1]].attempt
      BY <3>5, <3>12
    <3>16. \A i, j \in DOMAIN A!Lines' : A!Lines'[i] = A!Lines'[j] => i = j
      BY <3>5, <3>11
    <3> QED
      BY <3>2, <3>13, <3>14, <3>15, <3>16 DEF A!LinesInStep, A!Is
  <2>4. CASE file' = file /\ (does[t.node] = "append" => (t.pc = 2 /\ u.pc = 3) \/ u.pc = 99)
    <3>1. A!Lines' = A!Lines /\ \A x : A!Written(x)' <=> A!Written(x)
      BY <2>4 DEF A!Lines, A!Written
    <3>2. \A v \in threads' : does[v.node] = "append" =>
             /\ v.pc = 1 => ~A!Written(A!Line(v))
             /\ v.pc \in {2, 3} => A!Written(A!Line(v))
      <4>1. does[t.node] = "append" /\ u.pc # 99 => A!Written(A!Line(u))
        BY <1>1, <2>1, <2>4 DEF A!LinesInStep
      <4> QED
        BY <2>1, <2>4, <4>1 DEF A!LinesInStep
    <3> QED
      BY <1>2, <2>1, <2>4, <3>1, <3>2 DEF A!LinesInStep, A!Is
  <2> QED
    BY <2>1, <2>3, <2>4
<1>9. A!RowsTyped' /\ A!RowsOfThreads'
  <2>1. A!RowsTyped /\ A!RowsOfThreads
    BY DEF A!AttemptsInv
  <2>2. A!RowsTyped'
    <3>1. A!Line(t) \in Nodes \X Nat
      BY <1>1, <1>7
    <3>2. IsFiniteSet(table) /\ table \subseteq Nodes \X Nat
      BY <2>1, SameCounts DEF A!RowsTyped
    <3>3. IsFiniteSet(table \cup {A!Line(t)})
      BY <3>2, FS_AddElement
    <3>4. IsFiniteSet(table') /\ table' \subseteq Nodes \X Nat
      BY <3>1, <3>2, <3>3
    <3> QED
      BY <3>4, SameCounts DEF A!RowsTyped
  <2>3. A!RowsOfThreads'
    <3>1. \A v \in threads \ {t} : A!Line(v) \in table' <=> A!Line(v) \in table
      BY <1>3
    <3>2. does[t.node] = "sql" => (A!Line(u) \in table' <=> u.pc = 3)
      BY <1>1, <2>1 DEF A!RowsOfThreads
    <3> QED
      BY <1>2, <2>1, <3>1, <3>2 DEF A!RowsOfThreads
  <2> QED
    BY <2>2, <2>3
<1>10. ASSUME NEW n \in Nodes, does'[n] = "sql" PROVE A!RowsInStep(n)'
  <2>1. A!RowsInStep(n)
    BY <1>10, OfTask
  <2>2. table' = table \/ table' = table \cup {A!Line(t)}
    OBVIOUS
  <2>3. table \subseteq table'
    BY <2>2
  <2>4. \A entry \in table' : entry \in table \/ (entry[1] = t.node /\ entry[2] = t.attempt)
    BY <1>1, <2>2
  <2>5. A!Is(n, "started") => <<n, task[n].attempt>> \notin table'
    BY <1>6, <2>1, <2>2 DEF A!RowsInStep
  <2>6. \A entry \in table' : entry[1] = n => entry[2] \in 1..task[n].attempt
    BY <1>7, <2>1, <2>4 DEF A!RowsInStep
  <2>7. ASSUME "timeout" \notin A!ToSet(task[n].codes)
        PROVE  /\ \A v \in threads' : v.node = n =>
                     v.attempt = task[n].attempt /\ (A!Is(n, "waiting") \/ A!Is(n, "cancelled"))
               /\ \A entry \in table' : entry[1] = n =>
                     /\ entry[2] = task[n].attempt
                     /\ task[n].stage \in {"waiting", "done", "completed", "cancelled"}
    <3>1. \A v \in threads : v.node = n =>
             v.attempt = task[n].attempt /\ (A!Is(n, "waiting") \/ A!Is(n, "cancelled"))
      BY <2>1, <2>7 DEF A!RowsInStep
    <3>2. \A entry \in table : entry[1] = n =>
             /\ entry[2] = task[n].attempt
             /\ task[n].stage \in {"waiting", "done", "completed", "cancelled"}
      BY <2>1, <2>7 DEF A!RowsInStep
    <3> QED
      BY <2>4, <3>1, <3>2 DEF A!Is
  <2> QED
    BY <2>1, <2>3, <2>5, <2>6, <2>7 DEF A!RowsInStep, A!Is
<1> QED
  BY <1>4, <1>5, <1>8, <1>9, <1>10 DEF A!AttemptsInv

(* A thread that goes on in its program, or raises.                          *)
After(t, u, pc, saw) == u = [t EXCEPT !.pc = pc, !.saw = saw]

(* It stays the thread of its attempt.                                       *)
LEMMA ThreadGoes ==
    ASSUME NEW t, A!ThreadTyped(t), NEW pc, NEW saw, NEW u,
           After(t, u, pc, saw),
           pc = 99 \/ (t.pc \in DOMAIN A!Program(does[t.node]) /\ pc = t.pc + 1)
    PROVE  A!ThreadTyped(u) /\ u.node = t.node /\ u.attempt = t.attempt /\ u.pc = pc
<1>2. t = [node |-> t.node, attempt |-> t.attempt, pc |-> t.pc, saw |-> t.saw]
  BY DEF A!ThreadTyped
<1>3. u = [node |-> t.node, attempt |-> t.attempt, pc |-> pc, saw |-> saw]
  BY <1>2 DEF After
<1>4. u.node = t.node /\ u.attempt = t.attempt /\ u.pc = pc /\ u.saw = saw
  BY <1>3
<1>5. pc \in 1..(Len(A!Program(does[t.node])) + 1) \cup {99}
  <2>1. PICK kind \in A!InThread : kind = does[t.node]
    BY DEF A!ThreadTyped
  <2>2. PICK length : length = Len(A!Program(kind))
    OBVIOUS
  <2>3. length \in {2, 3} /\ DOMAIN A!Program(kind) = 1..length
    BY <2>2, Programs
  <2>4. pc = 99 \/ (t.pc \in 1..length /\ pc = t.pc + 1)
    BY <2>1, <2>3
  <2>5. pc \in 1..(length + 1) \cup {99}
    BY <2>3, <2>4
  <2> QED
    BY <2>1, <2>2, <2>5
<1>6. A!ThreadTyped(u)
  BY <1>3, <1>4, <1>5 DEF A!ThreadTyped
<1> QED
  BY <1>4, <1>6

(* FileNode._run_sync(): every line goes to the end of the file.             *)
LEMMA FileStepKeeps ==
    ASSUME A!AttemptsInv, NEW t \in threads, A!FileStep(t)
    PROVE  A!AttemptsInv'
<1>1. A!ThreadTyped(t)
  BY DEF A!AttemptsInv, A!Typed
<1>2. PICK step, more :
         /\ step \in {"append", "truncate", "fill", "find", "read", "size", "exists", "unlink"}
         /\ A!At(t, step) /\ A!Proceed(t, more) /\ UNCHANGED table
         /\ step = "append" => file' = A!Appended(t)
         /\ step \in {"find", "read", "size", "exists"} => file' = file
  <2>1. CASE A!At(t, "append") /\ file' = A!Appended(t) /\ A!Proceed(t, None)
             /\ UNCHANGED <<outbox, table>>
    BY <2>1
  <2>2. CASE A!At(t, "truncate") /\ A!Proceed(t, None) /\ UNCHANGED <<outbox, table>>
    BY <2>2
  <2>3. CASE A!At(t, "fill") /\ A!Proceed(t, None) /\ UNCHANGED <<outbox, table>>
    BY <2>3
  <2>4. CASE (A!At(t, "find") \/ A!At(t, "read") \/ A!At(t, "size"))
             /\ A!Proceed(t, None) /\ UNCHANGED A!world
    BY <2>4 DEF A!world
  <2>5. CASE A!At(t, "exists") /\ A!Proceed(t, file # None) /\ UNCHANGED A!world
    BY <2>5 DEF A!world
  <2>6. CASE A!At(t, "unlink") /\ A!Proceed(t, None) /\ UNCHANGED <<outbox, table>>
    BY <2>6
  <2> QED
    BY <2>1, <2>2, <2>3, <2>4, <2>5, <2>6 DEF A!FileStep
<1>3. PICK u : u = [t EXCEPT !.pc = t.pc + 1, !.saw = more]
  OBVIOUS
<1>4. /\ threads' = (threads \ {t}) \cup {u}
      /\ UNCHANGED <<does, task, context, processes, runs>>
  BY <1>2, <1>3 DEF A!Proceed
<1>5. t.pc \in DOMAIN A!Program(does[t.node]) /\ does[t.node] # "sql"
  BY <1>1, <1>2, Places
<1>6. A!ThreadTyped(u) /\ u.node = t.node /\ u.attempt = t.attempt /\ u.pc = t.pc + 1
  <2>1. PICK pc : pc = t.pc + 1
    OBVIOUS
  <2>2. After(t, u, pc, more)
    BY <1>3, <2>1 DEF After
  <2> QED
    BY <1>1, <1>5, <2>1, <2>2, ThreadGoes
<1>7. ASSUME A!AllAppend
      PROVE  \/ does[t.node] = "append" /\ t.pc = 1 /\ u.pc = 2 /\ file' = A!Appended(t)
             \/ does[t.node] = "append" /\ t.pc = 2 /\ u.pc = 3 /\ file' = file
             \/ (does[t.node] = "append" => u.pc = 99) /\ file' = file
  <2>1. does[t.node] \in {"append", "email"}
    BY <1>1, <1>7 DEF A!ThreadTyped, A!AllAppend
  <2>2. CASE does[t.node] = "append"
    <3>1. step \in {"append", "size"} /\ t.pc = IF step = "append" THEN 1 ELSE 2
      BY <1>1, <1>2, <2>2, Places
    <3> QED
      BY <1>2, <1>6, <2>2, <3>1
  <2>3. CASE does[t.node] = "email"
    <3>1. step \in {"find", "read", "size", "exists"}
      BY <1>1, <1>2, <2>3, Places
    <3> QED
      BY <1>2, <2>3, <3>1
  <2> QED
    BY <2>1, <2>2, <2>3
<1> QED
  BY <1>2, <1>4, <1>5, <1>6, <1>7, ThreadMoves

(* A step that raises: nothing was written or stored.                        *)
LEMMA RaiseKeeps ==
    ASSUME A!AttemptsInv, NEW t \in threads, NEW exception, A!Raise(t, exception),
           NEW step, A!At(t, step)
    PROVE  A!AttemptsInv'
<1>1. A!ThreadTyped(t)
  BY DEF A!AttemptsInv, A!Typed
<1>2. PICK u : u = [t EXCEPT !.pc = 99, !.saw = exception]
  OBVIOUS
<1>3. /\ threads' = (threads \ {t}) \cup {u}
      /\ UNCHANGED <<does, task, context, processes, runs, file, table>>
  BY <1>2 DEF A!Raise, A!world
<1>4. A!ThreadTyped(u) /\ u.node = t.node /\ u.attempt = t.attempt /\ u.pc = 99
  <2>1. After(t, u, 99, exception)
    BY <1>2 DEF After
  <2> QED
    BY <1>1, <2>1, ThreadGoes
<1>5. does[t.node] = "sql" => t.pc # 3
  BY <1>1, Places
<1> QED
  BY <1>3, <1>4, <1>5, ThreadMoves

(* EmailNode._send_sync(): neither the file nor the table is touched.        *)
LEMMA EmailStepKeeps ==
    ASSUME A!AttemptsInv, NEW t \in threads, A!EmailStep(t)
    PROVE  A!AttemptsInv'
<1>1. A!ThreadTyped(t)
  BY DEF A!AttemptsInv, A!Typed
<1>2. PICK step \in {"connect", "send"} : A!At(t, step)
  BY DEF A!EmailStep
<1>3. t.pc \in DOMAIN A!Program(does[t.node]) /\ does[t.node] = "email"
  BY <1>1, <1>2, Places, SMTT(30)
<1>4. PICK pc, saw : /\ pc = 99 \/ pc = t.pc + 1
                     /\ threads' = (threads \ {t}) \cup {[t EXCEPT !.pc = pc, !.saw = saw]}
  <2>1. CASE A!Proceed(t, None)
    BY <2>1 DEF A!Proceed
  <2>2. CASE threads' = (threads \ {t}) \cup {[t EXCEPT !.pc = t.pc + 1]}
    <3>1. t = [node |-> t.node, attempt |-> t.attempt, pc |-> t.pc, saw |-> t.saw]
      BY <1>1 DEF A!ThreadTyped
    <3>2. [t EXCEPT !.pc = t.pc + 1] = [t EXCEPT !.pc = t.pc + 1, !.saw = t.saw]
      BY <3>1
    <3> QED
      BY <2>2, <3>2
  <2>3. CASE threads' = (threads \ {t}) \cup {[t EXCEPT !.pc = 99, !.saw = "OSError"]}
    BY <2>3
  <2> QED
    BY <2>1, <2>2, <2>3 DEF A!EmailStep
<1>5. UNCHANGED <<does, task, context, processes, runs, file, table>>
  BY DEF A!EmailStep, A!Proceed, A!world
<1>6. PICK u : u = [t EXCEPT !.pc = pc, !.saw = saw]
  OBVIOUS
<1>7. A!ThreadTyped(u) /\ u.node = t.node /\ u.attempt = t.attempt
  <2>1. After(t, u, pc, saw)
    BY <1>6 DEF After
  <2> QED
    BY <1>1, <1>3, <1>4, <2>1, ThreadGoes
<1>8. threads' = (threads \ {t}) \cup {u}
  BY <1>4, <1>6
<1> QED
  BY <1>3, <1>5, <1>7, <1>8, ThreadMoves

(* DatabaseNode._run_sync(): the commit stores the row, nothing before it.   *)
LEMMA DatabaseStepKeeps ==
    ASSUME A!AttemptsInv, NEW t \in threads, A!DatabaseStep(t)
    PROVE  A!AttemptsInv'
<1>1. A!ThreadTyped(t)
  BY DEF A!AttemptsInv, A!Typed
<1>2. PICK u : u = [t EXCEPT !.pc = t.pc + 1, !.saw = None]
  OBVIOUS
<1>3. /\ threads' = (threads \ {t}) \cup {u}
      /\ UNCHANGED <<does, task, context, processes, runs, file>>
  BY <1>2 DEF A!DatabaseStep, A!Proceed
<1>4. PICK step \in {"execute", "commit"} : A!At(t, step)
  BY DEF A!DatabaseStep
<1>5. /\ t.pc \in DOMAIN A!Program(does[t.node]) /\ does[t.node] = "sql"
      /\ t.pc = IF step = "execute" THEN 1 ELSE 2
  BY <1>1, <1>4, Places
<1>6. A!ThreadTyped(u) /\ u.node = t.node /\ u.attempt = t.attempt /\ u.pc = t.pc + 1
  <2>1. PICK pc : pc = t.pc + 1
    OBVIOUS
  <2>2. After(t, u, pc, None)
    BY <1>2, <2>1 DEF After
  <2> QED
    BY <1>1, <1>5, <2>1, <2>2, ThreadGoes
<1>7. A!Stores(t) <=> step = "commit"
  BY <1>4, <1>5 DEF A!Stores, A!At
<1>8. table' = IF step = "commit" THEN table \cup {A!Line(t)} ELSE table
  BY <1>7 DEF A!DatabaseStep
<1> QED
  BY <1>3, <1>4, <1>5, <1>6, <1>8, ThreadMoves

(* Every step keeps the invariant.                                           *)
LEMMA AttemptsStep == ASSUME A!AttemptsInv, A!Next PROVE A!AttemptsInv'
<1>1. ASSUME A!Stop PROVE A!AttemptsInv'
  BY <1>1, EndsKeep DEF A!Stop, A!world
<1>2. ASSUME NEW n \in Nodes, A!NodeSteps(n) PROVE A!AttemptsInv'
  BY <1>2, AttemptKeeps, RunImmediateKeeps, RefusedKeeps, RunInThreadKeeps, RunProcessKeeps,
     ThreadAnswersKeeps, DelayKeeps, ResumeKeeps
     DEF A!NodeSteps
<1>3. ASSUME NEW n \in Nodes, A!Clock(n) PROVE A!AttemptsInv'
  BY <1>3, ProcessAnswersKeeps, TimesOutKeeps, DelayKeeps, CancelledKeeps DEF A!Clock
<1>4. ASSUME NEW t \in threads, A!Work(t) PROVE A!AttemptsInv'
  <2>1. ASSUME A!FileMissing(t) \/ A!ThreadFails(t) PROVE A!AttemptsInv'
    <3>1. (\E step : A!At(t, step)) /\ \E exception : A!Raise(t, exception)
      BY <2>1 DEF A!FileMissing, A!ThreadFails
    <3> QED
      BY <3>1, RaiseKeeps
  <2> QED
    BY <1>4, <2>1, FileStepKeeps, EmailStepKeeps, DatabaseStepKeeps DEF A!Work
<1>5. ASSUME NEW t \in threads, A!ThreadEnds(t) PROVE A!AttemptsInv'
  BY <1>5, EndsKeep DEF A!ThreadEnds, A!world
<1>6. ASSUME NEW p \in processes, A!ProcessEnds(p) PROVE A!AttemptsInv'
  BY <1>6, EndsKeep DEF A!ProcessEnds, A!world
<1> QED
  BY <1>1, <1>2, <1>3, <1>4, <1>5, <1>6 DEF A!Next

(* Nothing else disturbs it.                                                 *)
LEMMA AttemptsUntouched ==
    ASSUME A!AttemptsInv, UNCHANGED retries
    PROVE  A!AttemptsInv'
BY EndsKeep DEF retries

(* A set that is not empty counts, and one within a singleton counts once.   *)
LEMMA Counting ==
    ASSUME NEW T, IsFiniteSet(T)
    PROVE  /\ T # {} => Cardinality(T) >= 1
           /\ \A x : T \subseteq {x} => Cardinality(T) <= 1
<1>1. Cardinality(T) \in Nat /\ (Cardinality(T) = 0 <=> T = {})
  BY FS_CardinalityType, FS_EmptySet
<1>2. ASSUME NEW x, T \subseteq {x} PROVE Cardinality(T) <= 1
  <2>1. IsFiniteSet({x}) /\ Cardinality({x}) = 1
    BY FS_Singleton
  <2> QED
    BY <1>2, <2>1, FS_Subset
<1> QED
  BY <1>1, <1>2

(* What the invariant says of what the nodes share, ...                      *)
LEMMA AttemptsShared ==
    ASSUME A!AttemptsInv
    PROVE  A!TypeOK /\ A!IncrementsCount /\ A!AppendsKept
<1>1. A!TypeOK
  <2>1. ASSUME NEW n \in Nodes
        PROVE  task[n].attempt \in 0..MaxAttempts /\ Len(task[n].codes) <= MaxAttempts
    <3>1. task[n].attempt \in 0..MaxAttempts /\ MaxAttempts \in Nat
      BY OfTask, PolicyAssumed, EngineAndMediaAssumption DEF A!Task
    <3>2. task[n].stage \in A!Stages /\ A!CodesInStep(n) /\ Len(task[n].codes) \in Nat
      BY OfTask DEF A!Task
    <3> QED
      BY <3>1, <3>2 DEF A!CodesInStep, A!Is, A!Stages
  <2> QED
    BY <2>1 DEF A!AttemptsInv, A!Typed, A!ThreadTyped, A!TypeOK
<1>2. A!IncrementsCount
  BY DEF A!AttemptsInv, A!Typed, A!IncrementsCount
<1>3. ASSUME A!AllAppend, NEW n \in Nodes, does[n] = "append", task[n].stage = "completed"
      PROVE  A!Cardinality({i \in DOMAIN A!Lines : A!Lines[i][1] = n}) \in 1..task[n].attempt
  <2> DEFINE Of == {i \in DOMAIN A!Lines : A!Lines[i][1] = n}
  <2>1. A!LinesInStep /\ task[n].attempt \in Nat
    BY <1>3, OfTask
  <2>2. A!Lines \in Seq(Nodes \X Nat)
    BY <2>1 DEF A!LinesInStep, A!Lines
  <2>3. PICK length \in Nat : DOMAIN A!Lines = 1..length
    BY <2>2
  <2>4. IsFiniteSet(Of)
    <3>1. IsFiniteSet(1..length)
      BY FS_Interval
    <3> QED
      BY <2>3, <3>1, FS_Subset
  <2>5. Of # {}
    <3>1. PICK i \in DOMAIN A!Lines : A!Lines[i] = <<n, task[n].attempt>>
      BY <1>3, <2>1 DEF A!LinesInStep, A!Is, A!Written
    <3> QED
      BY <3>1
  <2>6. Cardinality(Of) <= task[n].attempt
    <3> DEFINE Which == [i \in Of |-> A!Lines[i][2]]
    <3>1. Which \in [Of -> 1..task[n].attempt]
      BY <2>1 DEF A!LinesInStep
    <3>2. \A i \in Of : A!Lines[i] = <<n, Which[i]>>
      BY <2>2
    <3>3. \A i, j \in Of : Which[i] = Which[j] => i = j
      <4>1. \A i, j \in Of : A!Lines[i] = A!Lines[j] => i = j
        BY <2>1 DEF A!LinesInStep
      <4> HIDE DEF Of, Which
      <4> QED
        BY <3>2, <4>1
    <3>4. Which \in Injection(Of, 1..task[n].attempt)
      BY <3>1, <3>3 DEF Injection, IsInjective
    <3>5. IsFiniteSet(1..task[n].attempt) /\ Cardinality(1..task[n].attempt) = task[n].attempt
      <4>1. PICK k \in Nat : k = task[n].attempt
        BY <2>1
      <4>2. IsFiniteSet(1..k) /\ Cardinality(1..k) = k
        BY FS_Interval
      <4> QED
        BY <4>1, <4>2
    <3> QED
      BY <3>4, <3>5, FS_Injection
  <2>7. Cardinality(Of) >= 1 /\ Cardinality(Of) \in Nat
    BY <2>4, <2>5, Counting, FS_CardinalityType
  <2> QED
    BY <2>1, <2>6, <2>7, SameCounts
<1>4. A!AppendsKept
  BY <1>3 DEF A!AppendsKept, A!AllAppend
<1> QED
  BY <1>1, <1>2, <1>4

(* ... and of the retries.                                                   *)
LEMMA AttemptsRetries ==
    ASSUME A!AttemptsInv
    PROVE  A!RowsStoredOnce /\ A!PermanentIsFinal
<1>1. ASSUME NEW n \in Nodes, does[n] = "sql"
      PROVE  LET stored == A!Cardinality({entry \in table : entry[1] = n})
             IN /\ "timeout" \notin A!ToSet(task[n].codes) => stored <= 1
                /\ task[n].stage = "completed" => stored >= 1
  <2> DEFINE Of == {entry \in table : entry[1] = n}
  <2>1. A!RowsInStep(n)
    BY <1>1, OfTask
  <2>2. IsFiniteSet(table) /\ \A entry \in table : entry = <<entry[1], entry[2]>>
    BY SameCounts DEF A!AttemptsInv, A!RowsTyped
  <2>3. IsFiniteSet(Of)
    BY <2>2, FS_Subset
  <2>4. ASSUME "timeout" \notin A!ToSet(task[n].codes) PROVE Cardinality(Of) <= 1
    <3>1. Of \subseteq {<<n, task[n].attempt>>}
      BY <2>1, <2>2, <2>4 DEF A!RowsInStep
    <3> QED
      BY <2>3, <3>1, Counting
  <2>5. ASSUME task[n].stage = "completed" PROVE Cardinality(Of) >= 1
    <3>1. <<n, task[n].attempt>> \in Of
      BY <2>1, <2>5 DEF A!RowsInStep, A!Is
    <3> QED
      BY <2>3, <3>1, Counting
  <2> QED
    BY <2>4, <2>5, SameCounts
<1>2. A!RowsStoredOnce
  BY <1>1 DEF A!RowsStoredOnce
<1>3. A!PermanentIsFinal
  <2>1. ASSUME NEW n \in Nodes, NEW i \in DOMAIN task[n].codes,
               task[n].codes[i] \in {"validation", "permission", "not_found", "disabled"}
        PROVE  i = Len(task[n].codes) /\ task[n].attempt = i
    <3>1. A!CodesInStep(n) /\ task[n].codes \in Seq(A!Codes)
      BY OfTask
    <3>2. i \in 1..Len(task[n].codes)
      BY <3>1
    <3> QED
      BY <2>1, <3>1, <3>2 DEF A!CodesInStep, A!Permanent
  <2> QED
    BY <2>1 DEF A!PermanentIsFinal
<1> QED
  BY <1>2, <1>3

(* Nodes that run at the same time lose nothing of what they share, always   *)
(* (NodeContext, VariableNode, FileNode): increments all count and every     *)
(* line that was appended is there once.                                     *)
THEOREM SharedSafe == Spec => []SharedStateKept
<1> DEFINE Inv == picked = "attempts" => A!AttemptsInv
<1>1. Init => Inv
  BY AttemptsInit, EngineAndMediaAssumption DEF Init
<1>2. Inv /\ [Next]_vars => Inv'
  BY AttemptsUntouched, AttemptsStep DEF Next, NextRetries, NextSandbox, NextMedia, NextV1, NextLog, vars
<1>3. Inv => SharedStateKept
  BY AttemptsShared DEF SharedStateKept
<1> QED
  BY <1>1, <1>2, <1>3, PTL DEF Spec

(* Retries are sound, always (_run_node() and DatabaseNode): without a       *)
(* time-out a row is stored at most once however often a node is tried, a    *)
(* completed node has stored it, and nothing follows a permanent error.      *)
THEOREM RetriesSafe == Spec => []RetriesSound
<1> DEFINE Inv == picked = "attempts" => A!AttemptsInv
<1>1. Init => Inv
  BY AttemptsInit, EngineAndMediaAssumption DEF Init
<1>2. Inv /\ [Next]_vars => Inv'
  BY AttemptsUntouched, AttemptsStep DEF Next, NextRetries, NextSandbox, NextMedia, NextV1, NextLog, vars
<1>3. Inv => RetriesSound
  BY AttemptsRetries DEF RetriesSound
<1> QED
  BY <1>1, <1>2, <1>3, PTL DEF Spec

-----------------------------------------------------------------------------
(* The log of an execution.                                                  *)

(* A writer of the log has its place in the table of the flushes.            *)
LEMMA WritersWrite ==
    ASSUME EngineAndMediaAssumption
    PROVE  /\ Loop \in L!Writers /\ Requests \subseteq L!Writers /\ Loop \notin Requests
           /\ BatchSize \in Nat \ {0} /\ MaxLines \in Nat
BY DEF EngineAndMediaAssumption, L!LogAssumption, L!Writers

(* The lines taken are lines logged.                                         *)
LEMMA TakenLogged == ASSUME L!Typed PROVE logged \in Nat /\ L!taken \in 0..logged
<1>1. logged \in Nat /\ Len(pending) \in 0..logged
  BY DEF L!Typed
<1> QED
  BY <1>1 DEF L!taken

(* The first line is pending nowhere.                                        *)
LEMMA LogInit == ASSUME EngineAndMediaAssumption, L!Init PROVE L!LogInv
<1>1. /\ MaxLines \in Nat /\ Len(<<>>) = 0 /\ <<>> \in Seq(Nat)
      /\ \A w \in L!Writers : flush[w] = [stage |-> "idle", batch |-> <<>>, base |-> 0]
  BY WritersWrite DEF L!Init, L!Idle
<1>2. pending = <<>> /\ logged = 0 /\ rows = {} /\ lost = {} /\ finished = -1 /\ overlapped = FALSE
  BY DEF L!Init
<1>3. L!taken = 0
  <2>1. Len(pending) = 0 /\ logged = 0
    BY <1>1, <1>2
  <2> QED
    BY <2>1 DEF L!taken
<1>4. L!Typed
  <2>1. flush \in [L!Writers -> [stage : L!Stages, batch : Seq(Nat), base : Nat]]
    BY <1>1 DEF L!Init, L!Idle, L!Stages
  <2>2. pending \in Seq(Nat) /\ Len(pending) = 0
    BY <1>1, <1>2
  <2>3. logged \in 0..MaxLines /\ finished \in {-1} \cup 0..logged
    BY <1>1, <1>2
  <2>4. \A i \in 1..Len(pending) : pending[i] = L!taken + i
    BY <2>2
  <2>5. rows \subseteq [sequence : Nat, line : Nat] /\ lost \subseteq Nat /\ overlapped \in BOOLEAN
        /\ Len(pending) <= logged
    <3>1. rows \subseteq [sequence : Nat, line : Nat] /\ lost \subseteq Nat
      BY <1>2
    <3>2. overlapped \in BOOLEAN
      BY <1>2
    <3>3. logged = 0
      BY <1>2
    <3>4. Len(pending) <= logged
      BY <2>2, <3>3
    <3> QED
      BY <3>1, <3>2, <3>4
  <2> QED
    BY <2>1, <2>2, <2>3, <2>4, <2>5 DEF L!Typed
<1>5. \A w \in L!Writers : L!BatchInStep(w)
  BY <1>1 DEF L!BatchInStep, L!Writing
<1>6. L!NeverTwice
  BY <1>1, <1>2 DEF L!NeverTwice, L!InBatch
<1>7. L!NeverGone /\ L!NumbersCount /\ L!FinishTakes
  BY <1>1, <1>2, <1>3 DEF L!NeverGone, L!NumbersCount, L!FinishTakes
<1>8. L!OneAtATime
  BY <1>1, <1>2 DEF L!OneAtATime, L!NumberedAsLogged, L!Writing
<1> QED
  BY <1>4, <1>5, <1>6, <1>7, <1>8 DEF L!LogInv

(* What the flush of a writer becomes; the others go on with theirs.         *)
Moved(w, stage, batch, base) ==
    /\ flush' \in [L!Writers -> [stage : L!Stages, batch : Seq(Nat), base : Nat]]
    /\ flush'[w].stage = stage /\ flush'[w].batch = batch /\ flush'[w].base = base
    /\ \A v \in L!Writers \ {w} : flush'[v] = flush[v]

(* Only the stage of a flush changes, and nobody writes that did not before: *)
(* what is said of batches and rows stays.                                   *)
LEMMA StageKeeps ==
    ASSUME L!LogInv, NEW w \in L!Writers, flush[w].stage \in {"idle", "due"},
           NEW stage \in {"idle", "due"}, Moved(w, stage, flush[w].batch, flush[w].base),
           L!Typed', L!taken' = L!taken, logged' \in Nat, logged <= logged',
           UNCHANGED <<rows, lost, overlapped>>
    PROVE  /\ \A v \in L!Writers : L!BatchInStep(v)'
           /\ L!NeverTwice' /\ L!NeverGone' /\ L!NumbersCount'
           /\ overlapped' \/ L!OneAtATime'
<1>1. /\ L!Typed /\ \A v \in L!Writers : L!BatchInStep(v)
      /\ L!NeverTwice /\ L!NeverGone /\ L!NumbersCount /\ (overlapped \/ L!OneAtATime)
  BY DEF L!LogInv
<1>2. \A v \in L!Writers : /\ flush'[v].batch = flush[v].batch /\ flush'[v].base = flush[v].base
                           /\ flush'[v].stage = flush[v].stage \/ (v = w /\ flush'[v].stage = stage)
  BY DEF Moved
<1>3. flush[w].batch = <<>> /\ flush[w].base = 0
  BY <1>1 DEF L!BatchInStep, L!Writing
<1>4. \A v \in L!Writers : L!Writing(v)' <=> L!Writing(v)
  BY <1>2 DEF L!Writing
<1>5. \A v \in L!Writers : flush'[v].stage = "write" <=> flush[v].stage = "write"
  BY <1>2
<1>6. \A v \in L!Writers : L!BatchInStep(v)'
  BY <1>1, <1>2, <1>4, <1>5 DEF L!BatchInStep
<1>7. \A v \in L!Writers : \A line : L!InBatch(v, line)' <=> L!InBatch(v, line)
  BY <1>2 DEF L!InBatch
<1>8. \A line : L!InRow(line)' <=> L!InRow(line)
  BY DEF L!InRow
<1>9. L!NeverTwice'
  <2>1. \A v \in L!Writers : \A line : L!InBatch(v, line) => line \in 1..logged
    <3>1. \A v \in L!Writers : \A line : L!InBatch(v, line) => line \in 1..L!taken
      BY <1>1 DEF L!BatchInStep, L!InBatch
    <3> QED
      BY <1>1, <3>1, TakenLogged
  <2> QED
    BY <1>1, <1>7, <1>8, <2>1 DEF L!NeverTwice
<1>10. L!NeverGone'
  BY <1>1, <1>7, <1>8 DEF L!NeverGone
<1>11. L!NumbersCount'
  BY <1>1, <1>2, <1>5 DEF L!NumbersCount, L!RowLines
<1>12. ASSUME ~overlapped PROVE L!OneAtATime'
  BY <1>1, <1>2, <1>4, <1>5, <1>12 DEF L!OneAtATime, L!NumberedAsLogged
<1> QED
  BY <1>6, <1>9, <1>10, <1>11, <1>12

LEMMA LogKeeps ==
    ASSUME EngineAndMediaAssumption, L!LogInv, NEW w \in L!Writers, L!Log(w)
    PROVE  L!LogInv'
<1>1. L!Typed /\ L!FinishTakes
  BY DEF L!LogInv
<1>2. flush[w].stage = "idle" /\ logged < MaxLines /\ logged' = logged + 1
      /\ pending' = Append(pending, logged + 1)
      /\ UNCHANGED <<rows, lost, finished, overlapped>>
  BY DEF L!Log
<1>3. PICK stage \in {"idle", "due"} : Moved(w, stage, flush[w].batch, flush[w].base)
  <2>1. PICK due \in BOOLEAN : flush' = IF due THEN [flush EXCEPT ![w].stage = "due"] ELSE flush
    BY DEF L!Log
  <2>2. flush \in [L!Writers -> [stage : L!Stages, batch : Seq(Nat), base : Nat]]
    BY <1>1 DEF L!Typed
  <2>3. Moved(w, IF due THEN "due" ELSE "idle", flush[w].batch, flush[w].base)
    BY <1>2, <2>1, <2>2 DEF Moved, L!Stages
  <2> QED
    BY <2>3
<1>4. /\ logged \in Nat /\ MaxLines \in Nat /\ pending \in Seq(Nat) /\ Len(pending) \in Nat
      /\ logged' \in 0..MaxLines
  BY <1>1, <1>2, WritersWrite DEF L!Typed
<1>5. Len(pending') = Len(pending) + 1 /\ pending' \in Seq(Nat)
  BY <1>2, <1>4
<1>6. L!taken' = L!taken
  BY <1>2, <1>4, <1>5 DEF L!taken
<1>7. L!Typed'
  <2>1. \A i \in 1..Len(pending') : pending'[i] = L!taken + i
    <3> SUFFICES ASSUME NEW i \in 1..Len(pending') PROVE pending'[i] = L!taken + i
      OBVIOUS
    <3>1. CASE i = Len(pending) + 1
      BY <1>2, <1>4, <3>1 DEF L!taken
    <3>2. CASE i \in 1..Len(pending)
      BY <1>1, <1>2, <1>4, <3>2 DEF L!Typed
    <3> QED
      BY <1>4, <1>5, <3>1, <3>2
  <2>2. Len(pending') <= logged' /\ finished' \in {-1} \cup 0..logged'
    BY <1>1, <1>2, <1>4, <1>5 DEF L!Typed
  <2> QED
    BY <1>1, <1>2, <1>3, <1>4, <1>5, <1>6, <2>1, <2>2 DEF L!Typed, Moved
<1>8. /\ \A v \in L!Writers : L!BatchInStep(v)'
      /\ L!NeverTwice' /\ L!NeverGone' /\ L!NumbersCount'
      /\ overlapped' \/ L!OneAtATime'
  BY <1>2, <1>3, <1>4, <1>6, <1>7, StageKeeps
<1>9. L!FinishTakes'
  <2>1. flush'[Loop].stage = flush[Loop].stage \/ flush[Loop].stage = "idle"
    BY <1>2, <1>3, WritersWrite DEF Moved
  <2> QED
    BY <1>1, <1>2, <1>3, <1>6, <2>1, WritersWrite DEF L!FinishTakes, Moved
<1> QED
  BY <1>7, <1>8, <1>9 DEF L!LogInv

(* finish() and cleanup() ask the loop for a flush.                          *)
LEMMA DueKeeps ==
    ASSUME EngineAndMediaAssumption, L!LogInv, L!Finish \/ L!Cleanup
    PROVE  L!LogInv'
<1>1. L!Typed /\ L!FinishTakes /\ Loop \in L!Writers
  BY WritersWrite DEF L!LogInv
<1>2. /\ flush[Loop].stage = "idle" /\ flush' = [flush EXCEPT ![Loop].stage = "due"]
      /\ UNCHANGED <<pending, logged, rows, lost, overlapped>>
      /\ finished' \in {finished, logged}
  BY DEF L!Finish, L!Cleanup
<1>3. Moved(Loop, "due", flush[Loop].batch, flush[Loop].base)
  BY <1>1, <1>2 DEF Moved, L!Typed, L!Stages
<1>4. logged \in Nat /\ L!taken' = L!taken
  BY <1>1, <1>2 DEF L!Typed, L!taken
<1>5. L!Typed'
  BY <1>1, <1>2, <1>3, <1>4 DEF L!Typed, Moved
<1>6. /\ \A v \in L!Writers : L!BatchInStep(v)'
      /\ L!NeverTwice' /\ L!NeverGone' /\ L!NumbersCount'
      /\ overlapped' \/ L!OneAtATime'
  BY <1>1, <1>2, <1>3, <1>4, <1>5, StageKeeps
<1>7. L!FinishTakes'
  BY <1>3 DEF L!FinishTakes, Moved
<1> QED
  BY <1>5, <1>6, <1>7 DEF L!LogInv
(* flush_logs() takes the lines behind those taken before.                   *)
LEMMA TakeKeeps ==
    ASSUME EngineAndMediaAssumption, L!LogInv, NEW w \in L!Writers, L!Take(w)
    PROVE  L!LogInv'
<1>1. /\ L!Typed /\ \A v \in L!Writers : L!BatchInStep(v)
      /\ L!NeverTwice /\ L!NeverGone /\ L!NumbersCount /\ (overlapped \/ L!OneAtATime)
      /\ L!FinishTakes
  BY DEF L!LogInv
<1>2. /\ flush[w].stage = "due" /\ pending' = <<>>
      /\ UNCHANGED <<logged, rows, lost, finished>>
      /\ overlapped' = (overlapped \/ (pending # <<>> /\ \E v \in L!Writers : L!Writing(v)))
  BY DEF L!Take
<1>3. /\ pending \in Seq(Nat) /\ logged \in Nat /\ Len(pending) \in 0..logged
      /\ finished \in {-1} \cup 0..logged /\ overlapped \in BOOLEAN
      /\ flush \in [L!Writers -> [stage : L!Stages, batch : Seq(Nat), base : Nat]]
      /\ \A i \in 1..Len(pending) : pending[i] = L!taken + i
  BY <1>1 DEF L!Typed
<1>4. L!taken = logged - Len(pending) /\ L!taken \in 0..logged /\ L!taken' = logged
  <2>1. Len(pending') = 0
    BY <1>2
  <2> QED
    BY <1>2, <1>3, <2>1 DEF L!taken
<1>5. flush[w].batch = <<>> /\ flush[w].base = 0 /\ ~L!Writing(w)
  BY <1>1, <1>2 DEF L!BatchInStep, L!Writing
<1>6. Moved(w, IF pending = <<>> THEN "idle" ELSE "base", pending, 0)
  <2>1. CASE pending = <<>>
    <3>1. flush' = [flush EXCEPT ![w] = [stage |-> "idle", batch |-> <<>>, base |-> 0]]
      BY <2>1 DEF L!Take, L!Idle
    <3> QED
      BY <1>3, <2>1, <3>1 DEF Moved, L!Stages
  <2>2. CASE pending # <<>>
    <3>1. flush' = [flush EXCEPT ![w] = [flush[w] EXCEPT !.stage = "base", !.batch = pending]]
      BY <2>2 DEF L!Take
    <3>2. PICK f : f = flush[w]
      OBVIOUS
    <3>3. f \in [stage : L!Stages, batch : Seq(Nat), base : Nat] /\ f.base = 0
      BY <1>3, <1>5, <3>2
    <3>4. PICK g : g = [f EXCEPT !.stage = "base", !.batch = pending]
      OBVIOUS
    <3>5. g.stage = "base" /\ g.batch = pending /\ g.base = 0
          /\ g \in [stage : L!Stages, batch : Seq(Nat), base : Nat]
      BY <1>3, <3>3, <3>4 DEF L!Stages
    <3>6. flush' = [flush EXCEPT ![w] = g]
      BY <3>1, <3>2, <3>4
    <3> QED
      BY <1>3, <2>2, <3>5, <3>6 DEF Moved
  <2> QED
    BY <2>1, <2>2
<1>7. L!Typed'
  <2>1. pending' \in Seq(Nat) /\ Len(pending') = 0
    BY <1>2
  <2>2. \A i \in 1..Len(pending') : pending'[i] = L!taken' + i
    BY <2>1
  <2>3. Len(pending') <= logged' /\ overlapped' \in BOOLEAN
    BY <1>2, <1>3, <2>1
  <2> QED
    BY <1>1, <1>2, <1>6, <2>1, <2>2, <2>3 DEF L!Typed, Moved
<1>8. L!FinishTakes'
  BY <1>2, <1>3, <1>4 DEF L!FinishTakes
<1>9. CASE pending = <<>>
  <2>1. L!taken' = L!taken /\ overlapped' = overlapped
    <3>1. Len(pending) = 0
      BY <1>9
    <3> QED
      BY <1>2, <1>3, <1>4, <1>9, <3>1
  <2>2. Moved(w, "idle", flush[w].batch, flush[w].base)
    BY <1>5, <1>6, <1>9
  <2>3. /\ \A v \in L!Writers : L!BatchInStep(v)'
        /\ L!NeverTwice' /\ L!NeverGone' /\ L!NumbersCount'
        /\ overlapped' \/ L!OneAtATime'
    BY <1>2, <1>3, <1>7, <2>1, <2>2, StageKeeps
  <2> QED
    BY <1>7, <1>8, <2>3 DEF L!LogInv
<1>10. CASE pending # <<>>
  <2>1. /\ flush'[w].stage = "base" /\ flush'[w].batch = pending /\ flush'[w].base = 0
        /\ \A v \in L!Writers \ {w} : flush'[v] = flush[v]
    BY <1>6, <1>10 DEF Moved
  <2>2. ASSUME NEW v \in L!Writers PROVE L!BatchInStep(v)'
    <3>1. CASE v = w
      <4>1. \A i \in 1..Len(pending) : pending[i] = pending[1] + i - 1 /\ pending[i] \in 1..logged
        <5>1. PICK t \in Nat : t = L!taken
          BY <1>4
        <5>2. \A i \in 1..Len(pending) : pending[i] = t + i
          BY <1>3, <5>1
        <5>3. t + Len(pending) = logged
          BY <1>3, <1>4, <5>1
        <5>4. SUFFICES ASSUME NEW i \in 1..Len(pending)
                       PROVE  pending[i] = pending[1] + i - 1 /\ pending[i] \in 1..logged
          OBVIOUS
        <5>5. 1 \in 1..Len(pending)
          BY <1>3
        <5>6. pending[i] = t + i /\ pending[1] = t + 1
          BY <5>2, <5>5
        <5> QED
          BY <1>3, <5>3, <5>6
      <4> QED
        BY <1>4, <2>1, <3>1, <4>1 DEF L!BatchInStep, L!Writing
    <3>2. CASE v # w
      <4>1. \A x : x \in 1..L!taken => x \in 1..logged
        BY <1>3, <1>4
      <4> QED
        BY <1>1, <1>4, <2>1, <3>2, <4>1 DEF L!BatchInStep, L!Writing
    <3> QED
      BY <3>1, <3>2
  <2>3. /\ \A line : L!InBatch(w, line)' <=> line \in (L!taken + 1)..logged
        /\ \A v \in L!Writers \ {w} : \A line : L!InBatch(v, line)' <=> L!InBatch(v, line)
        /\ \A line : L!InRow(line)' <=> L!InRow(line)
    <3>1. ASSUME NEW line \in (L!taken + 1)..logged PROVE L!InBatch(w, line)'
      <4>1. line - L!taken \in 1..Len(pending)
        BY <1>3, <1>4, <3>1
      <4>2. pending[line - L!taken] = line
        <5>1. PICK t \in Nat : t = L!taken
          BY <1>4
        <5>2. pending[line - t] = t + (line - t)
          BY <1>3, <4>1, <5>1
        <5> QED
          BY <1>4, <3>1, <5>1, <5>2
      <4> QED
        BY <2>1, <4>1, <4>2 DEF L!InBatch
    <3>2. ASSUME NEW line, L!InBatch(w, line)' PROVE line \in (L!taken + 1)..logged
      <4>1. PICK i \in 1..Len(pending) : pending[i] = line
        BY <2>1, <3>2 DEF L!InBatch
      <4> QED
        BY <1>3, <1>4, <4>1
    <3>3. \A line : L!InRow(line)' <=> L!InRow(line)
      BY <1>2 DEF L!InRow
    <3> QED
      BY <2>1, <3>1, <3>2, <3>3 DEF L!InBatch
  <2>4. \A v \in L!Writers : \A line : L!InBatch(v, line) => line \in 1..L!taken
    BY <1>1 DEF L!BatchInStep, L!InBatch
  <2>5. \A line : L!InRow(line) => line \in 1..L!taken
    BY <1>1 DEF L!InRow, L!NeverTwice
  <2>6. \A line : line \in 1..L!taken => line \in 1..logged /\ line \notin (L!taken + 1)..logged
    BY <1>3, <1>4
  <2>7. L!NeverTwice'
    <3>1. ASSUME NEW v \in L!Writers, NEW line, L!InBatch(v, line)'
          PROVE  /\ ~L!InRow(line)' /\ line \notin lost'
                 /\ \A u \in L!Writers \ {v} : ~L!InBatch(u, line)'
      <4>1. CASE v = w
        BY <1>1, <1>2, <2>3, <2>4, <2>5, <2>6, <3>1, <4>1 DEF L!NeverTwice
      <4>2. CASE v # w
        BY <1>1, <1>2, <2>3, <2>4, <2>5, <2>6, <3>1, <4>2 DEF L!NeverTwice
      <4> QED
        BY <4>1, <4>2
    <3> QED
      BY <1>1, <1>2, <1>4, <2>6, <3>1 DEF L!NeverTwice
  <2>8. L!NeverGone'
    <3> SUFFICES ASSUME NEW line \in 1..logged
                 PROVE  line \in lost \/ L!InRow(line)' \/ \E v \in L!Writers : L!InBatch(v, line)'
      BY <1>2, <1>4 DEF L!NeverGone
    <3>1. CASE line \in 1..L!taken
      <4>1. L!InBatch(w, line) => FALSE
        BY <1>5, Len(<<>>) = 0 DEF L!InBatch
      <4> QED
        BY <1>1, <2>3, <3>1, <4>1 DEF L!NeverGone
    <3>2. CASE line \in (L!taken + 1)..logged
      BY <2>3, <3>2
    <3> QED
      BY <1>3, <1>4, <3>1, <3>2
  <2>9. L!NumbersCount'
    BY <1>1, <1>2, <2>1 DEF L!NumbersCount, L!RowLines
  <2>10. ASSUME ~overlapped' PROVE L!OneAtATime'
    <3>1. ~overlapped /\ L!OneAtATime /\ \A v \in L!Writers : ~L!Writing(v)
      BY <1>1, <1>2, <1>10, <2>10
    <3>2. \A v \in L!Writers \ {w} : ~L!Writing(v)' /\ flush'[v].batch = <<>>
      BY <1>1, <2>1, <3>1 DEF L!Writing, L!BatchInStep
    <3>3. \A r \in rows : r.line \in 1..L!taken
      BY <1>1 DEF L!NeverTwice
    <3>4. \A r \in rows : \A i \in 1..Len(pending) : r.line < pending[i]
      BY <1>3, <1>4, <3>3
    <3>5. \A v \in L!Writers \ {w} : \A r \in rows : /\ \A i \in 1..Len(flush'[v].batch) : r.line < flush'[v].batch[i]
            /\ flush'[v].stage # "write"
      <4>1. Len(<<>>) = 0
        OBVIOUS
      <4> QED
        BY <3>2, <4>1 DEF L!Writing
    <3> QED
      BY <1>2, <2>1, <3>1, <3>2, <3>4, <3>5 DEF L!OneAtATime, L!NumberedAsLogged
  <2> QED
    BY <1>7, <1>8, <2>2, <2>7, <2>8, <2>9, <2>10 DEF L!LogInv
<1> QED
  BY <1>9, <1>10
(* The lines of the rows are finitely many; the numbers of the rows do not    *)
(* exceed them.                                                              *)
LEMMA RowsCounted ==
    ASSUME L!Typed, L!NeverTwice, L!NumbersCount
    PROVE  /\ IsFiniteSet(L!RowLines) /\ Cardinality(L!RowLines) \in Nat
           /\ Cardinality(L!RowLines) <= logged
           /\ \A r \in rows : r.sequence \in 1..Cardinality(L!RowLines)
<1>1. L!RowLines \subseteq 1..L!taken
  BY DEF L!RowLines, L!NeverTwice
<1>2. PICK t \in Nat : t = L!taken /\ t <= logged /\ logged \in Nat
  BY TakenLogged
<1>3. IsFiniteSet(1..t) /\ Cardinality(1..t) = t
  BY FS_Interval
<1>4. IsFiniteSet(L!RowLines) /\ Cardinality(L!RowLines) \in Nat /\ Cardinality(L!RowLines) <= t
  BY <1>1, <1>2, <1>3, FS_Subset, FS_CardinalityType
<1>5. \A r \in rows : r.sequence \in 1..Cardinality(L!RowLines)
  BY SameCounts DEF L!NumbersCount
<1> QED
  BY <1>2, <1>4, <1>5

(* A bounded set of numbers has a largest.                                   *)
LEMMA Topmost ==
    ASSUME NEW T, NEW bound \in Nat, T \subseteq 0..bound, T # {}
    PROVE  /\ L!Max(T) \in T /\ \A y \in T : L!Max(T) >= y
           /\ P!Max(T) \in T /\ \A y \in T : P!Max(T) >= y
<1> DEFINE above == {k \in Nat : \A y \in T : k >= y}
<1>1. PICK top \in above : \A y \in above : ~(<<y, top>> \in OpToRel(<, Nat))
  <2>1. bound \in above
    OBVIOUS
  <2>2. above \subseteq Nat
    OBVIOUS
  <2> HIDE DEF above
  <2> QED
    BY <2>1, <2>2, NatLessThanWellFounded, WFMin
<1>2. top \in Nat /\ \A y \in T : y \in Nat /\ y <= top
  OBVIOUS
<1>3. top \in T
  <2>1. SUFFICES ASSUME top \notin T PROVE FALSE
    OBVIOUS
  <2>2. \A y \in T : y < top
    BY <1>2, <2>1
  <2>3. top > 0
    <3>1. PICK y \in T : TRUE
      OBVIOUS
    <3>2. y \in Nat /\ y < top
      BY <2>2
    <3> QED
      BY <1>2, <3>2
  <2>4. top - 1 \in above /\ top - 1 < top
    BY <1>2, <2>2, <2>3
  <2>5. ~(<<top - 1, top>> \in OpToRel(<, Nat))
    BY <1>1, <2>4
  <2> QED
    BY <1>2, <2>3, <2>4, <2>5 DEF OpToRel
<1> HIDE DEF above
<1> QED
  BY <1>2, <1>3 DEF L!Max, P!Max

(* next_sequence() is behind the numbers of all rows.                        *)
LEMMA Numbering ==
    ASSUME L!Typed, L!NeverTwice, L!NumbersCount
    PROVE  /\ L!next_sequence \in 1..(Cardinality(L!RowLines) + 1)
           /\ \A r \in rows : r.sequence < L!next_sequence
<1> DEFINE used == {r.sequence : r \in rows} \cup {0}
<1>1. PICK bound \in Nat : bound = Cardinality(L!RowLines) /\ used \subseteq 0..bound
  BY RowsCounted
<1>4. L!Max(used) \in used /\ \A y \in used : L!Max(used) >= y
  <2> HIDE DEF used
  <2> QED
    BY <1>1, Topmost, 0 \in used DEF used
<1>5. L!next_sequence = L!Max(used) + 1
  BY DEF L!next_sequence
<1> HIDE DEF used
<1>6. L!Max(used) \in 0..bound
  BY <1>1, <1>4
<1>7. \A r \in rows : r.sequence \in used /\ r.sequence \in Nat
  BY RowsCounted DEF used
<1> QED
  BY <1>1, <1>4, <1>5, <1>6, <1>7

(* The next number is read for the batch.                                    *)
LEMMA ReadBaseKeeps ==
    ASSUME EngineAndMediaAssumption, L!LogInv, NEW w \in L!Writers, L!ReadBase(w)
    PROVE  L!LogInv'
<1>1. /\ L!Typed /\ \A v \in L!Writers : L!BatchInStep(v)
      /\ L!NeverTwice /\ L!NeverGone /\ L!NumbersCount /\ (overlapped \/ L!OneAtATime)
      /\ L!FinishTakes
  BY DEF L!LogInv
<1>2. flush[w].stage = "base" /\ UNCHANGED <<pending, logged, rows, lost, finished, overlapped>>
  BY DEF L!ReadBase
<1>3. PICK base \in Nat : /\ base = L!next_sequence /\ base \in 1..(Cardinality(L!RowLines) + 1)
                          /\ \A r \in rows : r.sequence < base
  BY <1>1, Numbering, RowsCounted
<1>4. Moved(w, "write", flush[w].batch, base)
  <2>1. PICK f : f = flush[w]
    OBVIOUS
  <2>2. f \in [stage : L!Stages, batch : Seq(Nat), base : Nat]
    BY <1>1, <2>1 DEF L!Typed
  <2>3. PICK g : g = [f EXCEPT !.stage = "write", !.base = base]
    OBVIOUS
  <2>4. g.stage = "write" /\ g.batch = f.batch /\ g.base = base
        /\ g \in [stage : L!Stages, batch : Seq(Nat), base : Nat]
    BY <2>2, <2>3 DEF L!Stages
  <2>5. flush' = [flush EXCEPT ![w] = g]
    BY <1>1, <1>3, <2>1, <2>3 DEF L!ReadBase, L!Typed
  <2> QED
    BY <1>1, <2>1, <2>4, <2>5 DEF Moved, L!Typed
<1>5. L!taken' = L!taken
  BY <1>2 DEF L!taken
<1>6. L!Typed'
  BY <1>1, <1>2, <1>4, <1>5 DEF L!Typed, Moved
<1>7. /\ flush'[w].stage = "write" /\ flush'[w].base = base
      /\ \A v \in L!Writers : flush'[v].batch = flush[v].batch
      /\ \A v \in L!Writers \ {w} : flush'[v] = flush[v]
  BY <1>4 DEF Moved
<1>8. \A v \in L!Writers : L!Writing(v)' <=> L!Writing(v)
  BY <1>2, <1>7 DEF L!Writing
<1>9. \A v \in L!Writers : L!BatchInStep(v)'
  BY <1>1, <1>5, <1>7, <1>8 DEF L!BatchInStep
<1>10. (\A v \in L!Writers : \A line : L!InBatch(v, line)' <=> L!InBatch(v, line))
       /\ (\A line : L!InRow(line)' <=> L!InRow(line))
  BY <1>2, <1>7 DEF L!InBatch, L!InRow
<1>11. L!NeverTwice' /\ L!NeverGone'
  BY <1>1, <1>2, <1>5, <1>10 DEF L!NeverTwice, L!NeverGone
<1>12. L!NumbersCount'
  BY <1>1, <1>2, <1>3, <1>7, SameCounts DEF L!NumbersCount, L!RowLines
<1>13. ASSUME ~overlapped PROVE L!OneAtATime'
  BY <1>1, <1>2, <1>3, <1>7, <1>8, <1>13 DEF L!OneAtATime, L!NumberedAsLogged
<1>14. L!FinishTakes'
  BY <1>1, <1>2, <1>5, <1>7, WritersWrite DEF L!FinishTakes
<1> QED
  BY <1>2, <1>6, <1>9, <1>11, <1>12, <1>13, <1>14 DEF L!LogInv

(* A writer that is done has nothing in hand.                                *)
LEMMA Emptied ==
    ASSUME L!Typed, NEW w \in L!Writers, flush' = [flush EXCEPT ![w] = L!Idle]
    PROVE  Moved(w, "idle", <<>>, 0)
<1>1. L!Idle \in [stage : L!Stages, batch : Seq(Nat), base : Nat]
  BY DEF L!Idle, L!Stages
<1> QED
  BY <1>1 DEF Moved, L!Typed, L!Idle

(* The store raises: the lines of the batch are lost.                        *)
LEMMA WriteFailsKeeps ==
    ASSUME EngineAndMediaAssumption, L!LogInv, NEW w \in L!Writers, L!WriteFails(w)
    PROVE  L!LogInv'
<1>1. /\ L!Typed /\ \A v \in L!Writers : L!BatchInStep(v)
      /\ L!NeverTwice /\ L!NeverGone /\ L!NumbersCount /\ (overlapped \/ L!OneAtATime)
      /\ L!FinishTakes
  BY DEF L!LogInv
<1>2. L!Writing(w) /\ UNCHANGED <<pending, logged, rows, finished, overlapped>>
  BY DEF L!WriteFails
<1>3. Moved(w, "idle", <<>>, 0)
  BY <1>1, Emptied DEF L!WriteFails
<1>4. \A line : line \in lost' <=> line \in lost \/ L!InBatch(w, line)
  <2>1. flush[w].batch \in Seq(Nat)
    BY <1>1 DEF L!Typed
  <2>2. DOMAIN flush[w].batch = 1..Len(flush[w].batch)
    BY <2>1
  <2> QED
    BY <2>2 DEF L!WriteFails, L!ToSet, L!InBatch
<1>5. /\ flush'[w].stage = "idle" /\ flush'[w].batch = <<>> /\ flush'[w].base = 0
      /\ \A v \in L!Writers \ {w} : flush'[v] = flush[v]
  BY <1>3 DEF Moved
<1>6. L!taken' = L!taken /\ logged \in Nat /\ L!taken \in 0..logged
  BY <1>1, <1>2, TakenLogged DEF L!taken
<1>7. \A v \in L!Writers : \A line : L!InBatch(v, line) => line \in 1..L!taken
  BY <1>1 DEF L!BatchInStep, L!InBatch
<1>8. L!Typed'
  <2>1. lost' \subseteq Nat
    <3>1. \A line : L!InBatch(w, line) => line \in Nat
      BY <1>6, <1>7
    <3>2. \A line : line \in lost => line \in Nat
      BY <1>1 DEF L!Typed
    <3> QED
      BY <1>4, <3>1, <3>2
  <2> QED
    BY <1>1, <1>2, <1>3, <1>6, <2>1 DEF L!Typed, Moved
<1>9. Len(<<>>) = 0
  OBVIOUS
<1>10. \A v \in L!Writers : L!Writing(v)' <=> L!Writing(v) /\ v # w
  BY <1>5 DEF L!Writing
<1>11. \A v \in L!Writers : L!BatchInStep(v)'
  BY <1>1, <1>5, <1>6, <1>9, <1>10 DEF L!BatchInStep
<1>12. (\A v \in L!Writers : \A line : L!InBatch(v, line)' <=> L!InBatch(v, line) /\ v # w)
       /\ (\A line : L!InRow(line)' <=> L!InRow(line))
  BY <1>2, <1>5, <1>9 DEF L!InBatch, L!InRow
<1>13. L!NeverTwice'
  <2>1. \A line : L!InBatch(w, line) => line \in 1..logged
    BY <1>6, <1>7
  <2>2. \A r \in rows : r.line \in 1..logged /\ L!InRow(r.line)
    BY <1>1, <1>6 DEF L!NeverTwice, L!InRow
  <2>3. lost' \subseteq 1..L!taken
    BY <1>1, <1>4, <1>7 DEF L!NeverTwice
  <2>4. \A r \in rows : r.line \in 1..L!taken /\ r.line \notin lost'
    BY <1>1, <1>4, <2>2 DEF L!NeverTwice
  <2>5. ASSUME NEW v \in L!Writers, NEW line \in 1..logged, L!InBatch(v, line)'
        PROVE  /\ ~L!InRow(line)' /\ line \notin lost'
               /\ \A u \in L!Writers \ {v} : ~L!InBatch(u, line)'
    BY <1>1, <1>4, <1>12, <2>5 DEF L!NeverTwice
  <2> QED
    BY <1>1, <1>2, <1>6, <2>3, <2>4, <2>5 DEF L!NeverTwice
<1>14. L!NeverGone'
  BY <1>1, <1>4, <1>6, <1>12 DEF L!NeverGone
<1>15. L!NumbersCount'
  BY <1>1, <1>2, <1>5 DEF L!NumbersCount, L!RowLines
<1>16. ASSUME ~overlapped PROVE L!OneAtATime'
  BY <1>1, <1>2, <1>5, <1>9, <1>10, <1>16 DEF L!OneAtATime, L!NumberedAsLogged
<1>17. L!FinishTakes'
  BY <1>1, <1>2, <1>5, <1>6, WritersWrite DEF L!FinishTakes, L!Writing
<1> QED
  BY <1>2, <1>8, <1>11, <1>13, <1>14, <1>15, <1>16, <1>17 DEF L!LogInv
(* bulk_append(): the batch becomes rows, numbered from the number read.     *)
LEMMA WriteKeeps ==
    ASSUME EngineAndMediaAssumption, L!LogInv, NEW w \in L!Writers, L!Write(w)
    PROVE  L!LogInv'
<1>1. /\ L!Typed /\ \A v \in L!Writers : L!BatchInStep(v)
      /\ L!NeverTwice /\ L!NeverGone /\ L!NumbersCount /\ (overlapped \/ L!OneAtATime)
      /\ L!FinishTakes
  BY DEF L!LogInv
<1>2. /\ flush[w].stage = "write" /\ UNCHANGED <<pending, logged, lost, finished, overlapped>>
  BY DEF L!Write
<1>3. Moved(w, "idle", <<>>, 0)
  BY <1>1, Emptied DEF L!Write
<1>4. PICK batch : batch = flush[w].batch
  OBVIOUS
<1>5. PICK base : base = flush[w].base
  OBVIOUS
<1>6. L!taken' = L!taken /\ logged \in Nat /\ L!taken \in 0..logged
  BY <1>1, <1>2, TakenLogged DEF L!taken
<1>7. /\ batch \in Seq(Nat) /\ Len(batch) \in Nat /\ DOMAIN batch = 1..Len(batch)
      /\ \A i \in 1..Len(batch) : batch[i] = batch[1] + i - 1 /\ batch[i] \in 1..L!taken
  <2>1. batch \in Seq(Nat)
    BY <1>1, <1>4 DEF L!Typed
  <2> QED
    BY <1>1, <1>4, <2>1 DEF L!BatchInStep
<1>8. base \in 1..(Cardinality(L!RowLines) + 1)
  BY <1>1, <1>2, <1>5, SameCounts DEF L!NumbersCount
<1>9. PICK lines \in Nat : lines = Cardinality(L!RowLines)
  BY <1>1, RowsCounted
<1> DEFINE Row(i) == [sequence |-> base + i - 1, line |-> batch[i]]
<1>10. rows' = rows \cup {Row(i) : i \in 1..Len(batch)}
  BY <1>4, <1>5, <1>7 DEF L!Write
<1>11. \A i \in 1..Len(batch) : /\ Row(i).sequence = base + i - 1 /\ Row(i).line = batch[i]
                                /\ Row(i) \in [sequence : Nat, line : Nat]
  BY <1>6, <1>7, <1>8, <1>9
<1>12. \A entry \in rows' \ rows : \E i \in 1..Len(batch) : entry = Row(i)
  BY <1>10
<1>13. /\ flush'[w].stage = "idle" /\ flush'[w].batch = <<>> /\ flush'[w].base = 0
       /\ \A v \in L!Writers \ {w} : flush'[v] = flush[v]
  BY <1>3 DEF Moved
<1>14. \A line : L!InBatch(w, line) <=> \E i \in 1..Len(batch) : batch[i] = line
  BY <1>4 DEF L!InBatch
<1>15. \A line : L!InRow(line)' <=> L!InRow(line) \/ L!InBatch(w, line)
  <2> HIDE DEF Row
  <2>1. \A line : L!InRow(line)' <=> \E r \in rows' : r.line = line
    BY DEF L!InRow
  <2> QED
    BY <1>10, <1>11, <1>14, <2>1 DEF L!InRow
<1>16. Len(<<>>) = 0
  OBVIOUS
<1>17. \A v \in L!Writers : \A line : L!InBatch(v, line)' <=> L!InBatch(v, line) /\ v # w
  BY <1>13, <1>16 DEF L!InBatch
<1>18. \A v \in L!Writers : L!Writing(v)' <=> L!Writing(v) /\ v # w
  BY <1>13 DEF L!Writing
<1>19. \A v \in L!Writers : \A line : L!InBatch(v, line) => line \in 1..L!taken /\ line \in 1..logged
  BY <1>1, <1>6 DEF L!BatchInStep, L!InBatch
<1> HIDE DEF Row
<1>20. L!Typed'
  <2>1. rows' \subseteq [sequence : Nat, line : Nat]
    BY <1>1, <1>10, <1>11 DEF L!Typed
  <2> QED
    BY <1>1, <1>2, <1>3, <1>6, <2>1 DEF L!Typed, Moved
<1>21. \A v \in L!Writers : L!BatchInStep(v)'
  BY <1>1, <1>6, <1>13, <1>16, <1>18 DEF L!BatchInStep
<1>22. L!NeverTwice'
  <2>1. ASSUME NEW v \in L!Writers, NEW line \in 1..logged, L!InBatch(v, line)'
        PROVE  /\ ~L!InRow(line)' /\ line \notin lost
               /\ \A u \in L!Writers \ {v} : ~L!InBatch(u, line)'
    BY <1>1, <1>15, <1>17, <2>1 DEF L!NeverTwice
  <2>2. \A i \in 1..Len(batch) : /\ batch[i] \in 1..L!taken /\ batch[i] \notin lost
                                 /\ ~L!InRow(batch[i])
    BY <1>1, <1>14, <1>19 DEF L!NeverTwice
  <2>3. \A entry \in rows' : entry.line \in 1..L!taken /\ entry.line \notin lost
    BY <1>1, <1>10, <1>11, <2>2 DEF L!NeverTwice
  <2>4. ASSUME NEW r \in rows', NEW s \in rows', r.line = s.line PROVE r = s
    <3>1. CASE r \in rows /\ s \in rows
      BY <1>1, <2>4, <3>1 DEF L!NeverTwice
    <3>2. CASE r \notin rows /\ s \notin rows
      <4>1. PICK i \in 1..Len(batch), j \in 1..Len(batch) : r = Row(i) /\ s = Row(j)
        BY <1>12, <3>2
      <4>2. batch[i] = batch[j]
        BY <1>11, <2>4, <4>1
      <4>3. 1 \in 1..Len(batch) /\ batch[1] \in Nat
        BY <1>6, <1>7
      <4>4. i = j
        BY <1>7, <4>2, <4>3
      <4> QED
        BY <4>1, <4>4
    <3>3. CASE r \in rows /\ s \notin rows
      <4>1. PICK j \in 1..Len(batch) : s = Row(j)
        BY <1>12, <3>3
      <4> QED
        BY <1>11, <2>2, <2>4, <3>3, <4>1 DEF L!InRow
    <3>4. CASE r \notin rows /\ s \in rows
      <4>1. PICK j \in 1..Len(batch) : r = Row(j)
        BY <1>12, <3>4
      <4> QED
        BY <1>11, <2>2, <2>4, <3>4, <4>1 DEF L!InRow
    <3> QED
      BY <3>1, <3>2, <3>3, <3>4
  <2> QED
    BY <1>1, <1>2, <1>6, <2>1, <2>3, <2>4 DEF L!NeverTwice
<1>23. L!NeverGone'
  BY <1>1, <1>2, <1>6, <1>15, <1>17 DEF L!NeverGone
<1>24. L!RowLines' = L!RowLines \cup {batch[i] : i \in 1..Len(batch)}
  <2>1. L!RowLines' = {r.line : r \in rows'}
    BY DEF L!RowLines
  <2> QED
    BY <1>10, <1>11, <2>1 DEF L!RowLines
<1>25. Cardinality(L!RowLines') = lines + Len(batch)
  <2> DEFINE New == {batch[i] : i \in 1..Len(batch)}
  <2>1. IsFiniteSet(New) /\ Cardinality(New) = Len(batch)
    <3>1. CASE Len(batch) = 0
      <4>1. New = {}
        BY <3>1
      <4> QED
        BY <3>1, <4>1, FS_EmptySet
    <3>2. CASE Len(batch) # 0
      <4>1. 1 \in 1..Len(batch)
        BY <1>7, <3>2
      <4>2. PICK first \in Nat : first = batch[1]
        BY <1>6, <1>7, <4>1
      <4>3. \A i \in 1..Len(batch) : batch[i] = first + i - 1
        BY <1>7, <4>2
      <4>4. New = first..(first + Len(batch) - 1)
        <5>1. ASSUME NEW x \in first..(first + Len(batch) - 1) PROVE x \in New
          <6>1. x - first + 1 \in 1..Len(batch) /\ first + (x - first + 1) - 1 = x
            BY <1>7
          <6> QED
            BY <4>3, <6>1
        <5>2. ASSUME NEW i \in 1..Len(batch) PROVE batch[i] \in first..(first + Len(batch) - 1)
          BY <1>7, <4>3
        <5> QED
          BY <5>1, <5>2
      <4>5. first + Len(batch) - 1 \in Int /\ ~(first > first + Len(batch) - 1)
            /\ (first + Len(batch) - 1) - first + 1 = Len(batch)
        BY <1>7, <3>2
      <4> HIDE DEF New
      <4> QED
        BY <4>4, <4>5, FS_Interval
    <3> QED
      BY <3>1, <3>2
  <2>2. L!RowLines \cap New = {}
    <3>1. \A line \in L!RowLines : L!InRow(line) /\ line \in 1..logged
      BY <1>1, <1>6 DEF L!RowLines, L!InRow, L!NeverTwice
    <3>2. \A line \in New : L!InBatch(w, line)
      BY <1>14
    <3> QED
      BY <1>1, <3>1, <3>2 DEF L!NeverTwice
  <2>3. IsFiniteSet(L!RowLines)
    BY <1>1, RowsCounted
  <2> HIDE DEF New
  <2>4. Cardinality(L!RowLines \cup New) = lines + Len(batch) - Cardinality({})
    BY <1>9, <2>1, <2>2, <2>3, FS_Union
  <2>5. L!RowLines' = L!RowLines \cup New
    BY <1>24 DEF New
  <2> QED
    BY <1>7, <2>4, <2>5, FS_EmptySet
<1>26. L!NumbersCount'
  <2>1. \A entry \in rows' : entry.sequence \in 1..(lines + Len(batch))
    <3>1. \A entry \in rows : entry.sequence \in 1..lines
      BY <1>1, <1>9, RowsCounted
    <3>2. \A i \in 1..Len(batch) : Row(i).sequence \in 1..(lines + Len(batch))
      BY <1>7, <1>8, <1>9, <1>11, SMTT(30)
    <3>3. \A k : k \in 1..lines => k \in 1..(lines + Len(batch))
      BY <1>7
    <3> QED
      BY <1>12, <3>1, <3>2, <3>3
  <2>2. ASSUME NEW v \in L!Writers, flush'[v].stage = "write"
        PROVE  flush'[v].base \in 1..(lines + Len(batch) + 1)
    <3>1. v # w /\ flush'[v] = flush[v]
      BY <1>13, <2>2
    <3>2. flush[v].base \in 1..(lines + 1)
      BY <1>1, <1>9, <2>2, <3>1, SameCounts DEF L!NumbersCount
    <3> QED
      BY <1>7, <3>1, <3>2
  <2>3. L!Cardinality(L!RowLines') = lines + Len(batch)
    BY <1>25, SameCounts
  <2> QED
    BY <2>1, <2>2, <2>3 DEF L!NumbersCount
<1>27. ASSUME ~overlapped PROVE L!OneAtATime'
  <2>1. L!OneAtATime /\ \A v \in L!Writers : ~L!Writing(v)'
    BY <1>1, <1>2, <1>18, <1>27 DEF L!OneAtATime, L!Writing
  <2>2. \A v \in L!Writers : flush'[v].batch = <<>> /\ flush'[v].stage # "write"
    BY <1>21, <2>1 DEF L!BatchInStep, L!Writing
  <2>3. \A r \in rows : r.sequence < base /\ \A i \in 1..Len(batch) : r.line < batch[i]
    BY <1>2, <1>4, <1>5, <2>1 DEF L!OneAtATime
  <2>4. L!NumberedAsLogged'
    <3>1. SUFFICES ASSUME NEW r \in rows', NEW s \in rows'
                   PROVE  r.line < s.line <=> r.sequence < s.sequence
      BY DEF L!NumberedAsLogged
    <3>2. rows \subseteq [sequence : Nat, line : Nat] /\ base \in Nat
      BY <1>1, <1>8, <1>9 DEF L!Typed
    <3>3. CASE r \in rows /\ s \in rows
      BY <1>27, <2>1, <3>3 DEF L!OneAtATime, L!NumberedAsLogged
    <3>4. CASE r \notin rows /\ s \notin rows
      <4>1. PICK i \in 1..Len(batch), j \in 1..Len(batch) : r = Row(i) /\ s = Row(j)
        BY <1>12, <3>4
      <4>2. 1 \in 1..Len(batch) /\ batch[1] \in Nat
        BY <1>6, <1>7
      <4>3. r.line = batch[1] + i - 1 /\ s.line = batch[1] + j - 1
            /\ r.sequence = base + i - 1 /\ s.sequence = base + j - 1
        BY <1>7, <1>11, <4>1
      <4> QED
        BY <1>7, <3>2, <4>2, <4>3, SMTT(30)
    <3>5. CASE r \in rows /\ s \notin rows
      <4>1. PICK j \in 1..Len(batch) : s = Row(j)
        BY <1>12, <3>5
      <4>2. s.line = batch[j] /\ s.sequence = base + j - 1 /\ j \in Nat /\ j >= 1
        BY <1>7, <1>11, <4>1
      <4>3. r.line < s.line /\ r.sequence < base
        BY <2>3, <3>5, <4>2
      <4> QED
        BY <3>2, <3>5, <4>2, <4>3
    <3>6. CASE r \notin rows /\ s \in rows
      <4>1. PICK j \in 1..Len(batch) : r = Row(j)
        BY <1>12, <3>6
      <4>2. r.line = batch[j] /\ r.sequence = base + j - 1 /\ j \in Nat /\ j >= 1 /\ batch[j] \in Nat
        BY <1>6, <1>7, <1>11, <4>1
      <4>3. s.line < r.line /\ s.sequence < base /\ s.line \in Nat /\ s.sequence \in Nat
        BY <2>3, <3>2, <3>6, <4>2
      <4> QED
        BY <3>2, <4>2, <4>3
    <3> QED
      BY <3>3, <3>4, <3>5, <3>6
  <2>5. \A v \in L!Writers : \A i \in 1..Len(flush'[v].batch) : FALSE
    BY <1>16, <2>2
  <2> QED
    BY <2>1, <2>2, <2>4, <2>5 DEF L!OneAtATime
<1>28. L!FinishTakes'
  BY <1>1, <1>2, <1>6, <1>13, WritersWrite DEF L!FinishTakes
<1> QED
  BY <1>2, <1>20, <1>21, <1>22, <1>23, <1>26, <1>27, <1>28 DEF L!LogInv

LEMMA LogStep == ASSUME EngineAndMediaAssumption, L!LogInv, L!Next PROVE L!LogInv'
BY LogKeeps, TakeKeeps, ReadBaseKeeps, WriteKeeps, WriteFailsKeeps, DueKeeps DEF L!Next, L!Flush
(* A list is a list of what its elements are.                                *)
LEMMA Lists == ASSUME NEW T, NEW s \in Seq(Nat), \A i \in 1..Len(s) : s[i] \in T PROVE s \in Seq(T)
<1>1. s = [i \in 1..Len(s) |-> s[i]] /\ Len(s) \in Nat
  OBVIOUS
<1>2. s \in [1..Len(s) -> T]
  BY <1>1
<1> QED
  BY <1>1, <1>2, SeqDef

(* The invariant says where a line is.                                       *)
LEMMA LogOnce == ASSUME L!LogInv PROVE L!EveryLineOnce
<1>1. L!Typed /\ (\A v \in L!Writers : L!BatchInStep(v)) /\ L!NeverTwice /\ L!NeverGone
  BY DEF L!LogInv
<1>2. PICK t \in Nat : t = L!taken /\ t <= logged /\ logged \in Nat
  BY <1>1, TakenLogged
<1>3. /\ Len(pending) \in Nat /\ DOMAIN pending = 1..Len(pending) /\ t + Len(pending) = logged
      /\ \A i \in 1..Len(pending) : pending[i] = t + i
  <2>1. pending \in Seq(Nat) /\ \A i \in 1..Len(pending) : pending[i] = t + i
    BY <1>1, <1>2 DEF L!Typed
  <2>2. Len(pending) \in Nat /\ DOMAIN pending = 1..Len(pending)
    BY <2>1, FS_Singleton
  <2> QED
    BY <1>2, <2>1, <2>2 DEF L!taken
<1>4. \A v \in L!Writers : DOMAIN flush[v].batch = 1..Len(flush[v].batch)
  <2>1. \A v \in L!Writers : flush[v].batch \in Seq(Nat)
    BY <1>1 DEF L!Typed
  <2> QED
    BY <2>1
<1> SUFFICES ASSUME NEW line \in 1..logged
             PROVE  Cardinality(L!Places(line)) = 1
  BY SameCounts DEF L!EveryLineOnce
<1>5. \A p : p \in L!Places(line) <=>
        \/ \E i \in 1..Len(pending) : pending[i] = line /\ p = <<"pending", Loop, i>>
        \/ \E v \in L!Writers : \E i \in 1..Len(flush[v].batch) :
             flush[v].batch[i] = line /\ p = <<"batch", v, i>>
        \/ \E r \in rows : r.line = line /\ p = <<"row", Loop, r.sequence>>
        \/ line \in lost /\ p = <<"lost", Loop, 0>>
  <2>1. \A p : p \in L!InPending(line) <=> \E i \in 1..Len(pending) : pending[i] = line /\ p = <<"pending", Loop, i>>
    BY <1>3 DEF L!InPending
  <2>2. \A v \in L!Writers : \A p : p \in L!InBatchOf(v, line) <=> \E i \in 1..Len(flush[v].batch) :
             flush[v].batch[i] = line /\ p = <<"batch", v, i>>
    BY <1>4 DEF L!InBatchOf
  <2>3. \A p : p \in L!InRows(line) <=> \E r \in rows : r.line = line /\ p = <<"row", Loop, r.sequence>>
    BY DEF L!InRows
  <2>4. \A p : p \in L!InLost(line) <=> line \in lost /\ p = <<"lost", Loop, 0>>
    BY DEF L!InLost
  <2>5. \A p : p \in L!Places(line) <=>
          p \in L!InPending(line) \/ (\E v \in L!Writers : p \in L!InBatchOf(v, line))
            \/ p \in L!InRows(line) \/ p \in L!InLost(line)
    BY DEF L!Places
  <2> QED
    BY <2>1, <2>2, <2>3, <2>4, <2>5
<1>6. \A v \in L!Writers : L!InBatch(v, line) => line <= t
  BY <1>1, <1>2 DEF L!BatchInStep, L!InBatch
<1>7. \A r \in rows : r.line = line => line <= t /\ line \notin lost
  BY <1>1, <1>2 DEF L!NeverTwice
<1>8. line \in lost => line <= t
  BY <1>1, <1>2 DEF L!NeverTwice
<1>9. CASE line > t
  <2>1. /\ \A v \in L!Writers : ~\E i \in 1..Len(flush[v].batch) : flush[v].batch[i] = line
        /\ \A r \in rows : r.line # line
        /\ line \notin lost
    BY <1>2, <1>6, <1>7, <1>8, <1>9 DEF L!InBatch
  <2>2. \A i \in 1..Len(pending) : pending[i] = line <=> i = line - t
    BY <1>2, <1>3
  <2>3. line - t \in 1..Len(pending)
    BY <1>2, <1>3, <1>9
  <2>4. L!Places(line) = {<<"pending", Loop, line - t>>}
    BY <1>5, <2>1, <2>2, <2>3
  <2> QED
    BY <2>4, FS_Singleton
<1>10. CASE line <= t
  <2>1. \A i \in 1..Len(pending) : pending[i] # line
    BY <1>2, <1>3, <1>10
  <2>2. line \in lost \/ L!InRow(line) \/ \E v \in L!Writers : L!InBatch(v, line)
    BY <1>1, <1>2, <1>10 DEF L!NeverGone
  <2>3. CASE line \in lost
    <3>1. /\ \A v \in L!Writers : ~\E i \in 1..Len(flush[v].batch) : flush[v].batch[i] = line
          /\ \A r \in rows : r.line # line
      BY <1>1, <1>7, <2>3 DEF L!NeverTwice, L!InBatch
    <3>2. L!Places(line) = {<<"lost", Loop, 0>>}
      BY <1>5, <2>1, <2>3, <3>1
    <3> QED
      BY <3>2, FS_Singleton
  <2>4. CASE L!InRow(line)
    <3>1. PICK r \in rows : r.line = line
      BY <2>4 DEF L!InRow
    <3>2. \A s \in rows : s.line = line <=> s = r
      BY <1>1, <3>1 DEF L!NeverTwice
    <3>3. /\ \A v \in L!Writers : ~\E i \in 1..Len(flush[v].batch) : flush[v].batch[i] = line
          /\ line \notin lost
      BY <1>1, <1>7, <2>4, <3>1 DEF L!NeverTwice, L!InBatch
    <3>4. L!Places(line) = {<<"row", Loop, r.sequence>>}
      BY <1>5, <2>1, <3>1, <3>2, <3>3
    <3> QED
      BY <3>4, FS_Singleton
  <2>5. CASE \E v \in L!Writers : L!InBatch(v, line)
    <3>1. PICK w \in L!Writers : L!InBatch(w, line)
      BY <2>5
    <3>2. PICK i \in 1..Len(flush[w].batch) : flush[w].batch[i] = line
      BY <3>1 DEF L!InBatch
    <3>3. \A k \in 1..Len(flush[w].batch) : flush[w].batch[k] = line => k = i
      <4>1. \A k \in 1..Len(flush[w].batch) :
              flush[w].batch[k] = flush[w].batch[1] + k - 1 /\ flush[w].batch[k] \in 1..t
        BY <1>1, <1>2 DEF L!BatchInStep
      <4>2. PICK batch \in Seq(Nat) : batch = flush[w].batch
        BY <1>1 DEF L!Typed
      <4>3. Len(batch) \in Nat /\ 1 \in 1..Len(batch)
        BY <3>2, <4>2
      <4>4. PICK first \in Nat : first = batch[1]
        BY <4>2, <4>3
      <4>5. \A k \in 1..Len(batch) : batch[k] = first + k - 1
        BY <4>1, <4>2, <4>4
      <4>6. i \in 1..Len(batch) /\ batch[i] = line /\ batch[i] = first + i - 1
        BY <3>2, <4>2, <4>5
      <4>7. \A k \in 1..Len(batch) : batch[k] = line => k = i
        BY <4>3, <4>5, <4>6
      <4> QED
        BY <4>2, <4>7
    <3>4. ~L!InRow(line) /\ line \notin lost /\ \A v \in L!Writers \ {w} : ~L!InBatch(v, line)
      BY <1>1, <3>1 DEF L!NeverTwice
    <3>5. /\ \A r \in rows : r.line # line
          /\ \A v \in L!Writers : \A k \in 1..Len(flush[v].batch) :
               flush[v].batch[k] = line <=> v = w /\ k = i
      BY <3>2, <3>3, <3>4 DEF L!InRow, L!InBatch
    <3>6. L!Places(line) = {<<"batch", w, i>>}
      BY <1>5, <2>1, <3>2, <3>4, <3>5
    <3> QED
      BY <3>6, FS_Singleton
  <2> QED
    BY <2>2, <2>3, <2>4, <2>5
<1> QED
  BY <1>2, <1>9, <1>10

(* What the invariant says of the log.                                       *)
LEMMA LogSound ==
    ASSUME EngineAndMediaAssumption, L!LogInv
    PROVE  L!TypeOK /\ L!EveryLineOnce /\ L!NumberedAsLogged /\ L!FinishedIsFlushed
<1>1. /\ L!Typed /\ (\A v \in L!Writers : L!BatchInStep(v))
      /\ L!NeverTwice /\ L!NeverGone /\ L!NumbersCount /\ (overlapped \/ L!OneAtATime)
      /\ L!FinishTakes
  BY DEF L!LogInv
<1>2. PICK t \in Nat : t = L!taken /\ t <= logged /\ logged \in Nat /\ logged <= MaxLines /\ MaxLines \in Nat
  BY <1>1, TakenLogged, WritersWrite DEF L!Typed
<1>3. /\ pending \in Seq(Nat) /\ Len(pending) \in Nat /\ t + Len(pending) = logged
      /\ \A i \in 1..Len(pending) : pending[i] = t + i
  <2>1. pending \in Seq(Nat) /\ \A i \in 1..Len(pending) : pending[i] = t + i
    BY <1>1, <1>2 DEF L!Typed
  <2>2. Len(pending) \in Nat
    BY <2>1
  <2> QED
    BY <1>2, <2>1, <2>2 DEF L!taken
<1>4. L!TypeOK
  <2>1. pending \in Seq(L!Lines)
    <3>1. \A i \in 1..Len(pending) : pending[i] \in L!Lines
      BY <1>2, <1>3 DEF L!Lines
    <3> QED
      BY <1>3, <3>1, Lists
  <2>2. ASSUME NEW v \in L!Writers
        PROVE  /\ flush[v].stage \in {"idle", "due", "base", "write"}
               /\ flush[v].batch \in Seq(L!Lines) /\ flush[v].base \in 0..MaxLines + 1
    <3>1. /\ flush[v].stage \in {"idle", "due", "base", "write"}
          /\ flush[v].batch \in Seq(Nat)
      BY <1>1 DEF L!Typed, L!Stages
    <3>2. flush[v].batch \in Seq(L!Lines)
      <4>1. \A i \in 1..Len(flush[v].batch) : flush[v].batch[i] \in L!Lines
        BY <1>1, <1>2 DEF L!BatchInStep, L!Lines
      <4> QED
        BY <3>1, <4>1, Lists
    <3>3. flush[v].base \in 0..MaxLines + 1
      <4>1. flush[v].base = 0 \/ flush[v].base \in 1..(Cardinality(L!RowLines) + 1)
        BY <1>1, SameCounts DEF L!BatchInStep, L!NumbersCount
      <4>2. Cardinality(L!RowLines) \in Nat /\ Cardinality(L!RowLines) <= logged
        BY <1>1, RowsCounted
      <4> QED
        BY <1>2, <4>1, <4>2
    <3> QED
      BY <3>1, <3>2, <3>3
  <2>3. rows \subseteq [sequence : L!Lines, line : L!Lines]
    <3>1. \A r \in rows : r \in [sequence : Nat, line : Nat] /\ r.sequence \in L!Lines /\ r.line \in L!Lines
      <4>1. \A r \in rows : r \in [sequence : Nat, line : Nat]
        BY <1>1 DEF L!Typed
      <4>2. \A r \in rows : r.line \in L!Lines
        BY <1>1, <1>2 DEF L!NeverTwice, L!Lines
      <4>3. \A r \in rows : r.sequence \in L!Lines
        BY <1>1, <1>2, RowsCounted DEF L!Lines
      <4> QED
        BY <4>1, <4>2, <4>3
    <3> QED
      BY <3>1
  <2>4. lost \subseteq L!Lines /\ overlapped \in BOOLEAN
    BY <1>1, <1>2 DEF L!NeverTwice, L!Typed, L!Lines
  <2>5. finished \in -1..MaxLines /\ logged \in 0..MaxLines
    BY <1>1, <1>2 DEF L!Typed
  <2> QED
    BY <2>1, <2>2, <2>3, <2>4, <2>5 DEF L!TypeOK
<1>5. L!NumberedAsLogged
  BY <1>1 DEF L!OneAtATime, L!NumberedAsLogged
<1>6. L!FinishedIsFlushed
  <2>1. finished \in Int /\ (flush[Loop].stage = "idle" => ~(finished > t))
    BY <1>1, <1>2 DEF L!Typed, L!FinishTakes
  <2>2. DOMAIN pending = 1..Len(pending)
    BY <1>3
  <2> QED
    BY <1>2, <1>3, <2>1, <2>2 DEF L!FinishedIsFlushed
<1> QED
  BY <1>1, <1>4, <1>5, <1>6, LogOnce

(* The log of an execution is whole, always (flush_logs(), next_sequence(),  *)
(* finish()): a line is in one place at any time, rows are numbered in the   *)
(* order of their lines unless flushes overlap, and finish() leaves nothing. *)
THEOREM LogSafe == Spec => []LogIsWhole
<1> DEFINE Inv == picked = "log" => L!LogInv
<1>1. Init => Inv
  BY LogInit, EngineAndMediaAssumption DEF Init
<1>2. Inv /\ [Next]_vars => Inv'
  <2>1. ASSUME UNCHANGED <<pending, logged, flush, rows, lost, finished, overlapped>>, L!LogInv
        PROVE  L!LogInv'
    <3>1. L!taken' = L!taken
      BY <2>1 DEF L!taken
    <3>2. L!Typed' <=> L!Typed
      BY <2>1, <3>1 DEF L!Typed
    <3>3. \A w \in L!Writers : /\ L!Writing(w)' <=> L!Writing(w)
                               /\ \A line : L!InBatch(w, line)' <=> L!InBatch(w, line)
      BY <2>1 DEF L!Writing, L!InBatch
    <3>4. \A w \in L!Writers : L!BatchInStep(w)' <=> L!BatchInStep(w)
      BY <2>1, <3>1, <3>3 DEF L!BatchInStep
    <3>5. \A line : L!InRow(line)' <=> L!InRow(line)
      BY <2>1 DEF L!InRow
    <3>6. (L!NeverTwice => L!NeverTwice') /\ (L!NeverGone => L!NeverGone')
      BY <2>1, <3>1, <3>3, <3>5 DEF L!NeverTwice, L!NeverGone
    <3>7. (L!NumbersCount => L!NumbersCount') /\ (L!FinishTakes => L!FinishTakes')
      BY <2>1, <3>1 DEF L!NumbersCount, L!RowLines, L!FinishTakes
    <3>8. L!OneAtATime => L!OneAtATime'
      BY <2>1, <3>3 DEF L!OneAtATime, L!NumberedAsLogged
    <3> QED
      BY <2>1, <3>2, <3>4, <3>6, <3>7, <3>8 DEF L!LogInv
  <2> QED
    BY <2>1, LogStep, EngineAndMediaAssumption
    DEF Next, NextRetries, NextSandbox, NextMedia, NextV1, NextLog, vars, log
<1>3. Inv => LogIsWhole
  BY LogSound, EngineAndMediaAssumption DEF LogIsWhole
<1> QED
  BY <1>1, <1>2, <1>3, PTL DEF Spec

-----------------------------------------------------------------------------
(* The media pipeline.                                                       *)

(* What is asked of the pipeline.                                            *)
LEMMA Asking ==
    ASSUME EngineAndMediaAssumption
    PROVE  /\ MaxWorkers \in Nat \ {0}
           /\ \A ask \in Asks : /\ ask \in [op : P!Ops, asset : Nat, process : BOOLEAN, wait : BOOLEAN]
                                     /\ ask.op \in P!Ops
BY DEF EngineAndMediaAssumption, P!MediaAssumption

(* A finite set of numbers has a bound.                                      *)
LEMMA Bounded ==
    ASSUME NEW T, IsFiniteSet(T), T \subseteq Nat
    PROVE  \E bound \in Nat : \A x \in T : x <= bound
<1> DEFINE Has(n) == \A f \in [1..n -> Nat] : \E bound \in Nat : \A i \in 1..n : f[i] <= bound
           Sizes == {n \in Nat : Has(n)}
<1>1. 0 \in Sizes
  BY 0 \in Nat
<1>2. ASSUME NEW n \in Nat, n \in Sizes PROVE n + 1 \in Sizes
  <2>1. ASSUME NEW f \in [1..(n + 1) -> Nat]
        PROVE  \E bound \in Nat : \A i \in 1..(n + 1) : f[i] <= bound
    <3>1. [i \in 1..n |-> f[i]] \in [1..n -> Nat]
      OBVIOUS
    <3>2. PICK bound \in Nat : \A i \in 1..n : f[i] <= bound
      <4>1. \E bound \in Nat : \A i \in 1..n : [k \in 1..n |-> f[k]][i] <= bound
        BY <1>2, <3>1
      <4> QED
        BY <4>1
    <3>3. f[n + 1] \in Nat
      OBVIOUS
    <3>4. PICK top \in Nat : bound <= top /\ f[n + 1] <= top
      BY <3>3
    <3>5. ASSUME NEW i \in 1..(n + 1) PROVE f[i] <= top
      <4>1. CASE i = n + 1
        BY <3>4, <4>1
      <4>2. CASE i \in 1..n
        <5>1. f[i] \in Nat /\ f[i] <= bound
          BY <3>2, <4>2
        <5> QED
          BY <3>4, <5>1
      <4> QED
        BY <4>1, <4>2
    <3> QED
      BY <3>4, <3>5
  <2>2. Has(n + 1)
    BY <2>1
  <2> HIDE DEF Has
  <2> QED
    BY <2>2
<1>3. Nat \subseteq Sizes
  <2> HIDE DEF Sizes
  <2> QED
    BY <1>1, <1>2, Induction
<1>4. PICK n \in Nat : n = Cardinality(T) /\ ExistsBijection(1..n, T)
  BY FS_CardinalityType
<1>5. PICK f \in [1..n -> T] : \A x \in T : \E i \in 1..n : f[i] = x
  BY <1>4 DEF ExistsBijection, Bijection, Surjection
<1>6. f \in [1..n -> Nat]
  BY <1>5
<1>7. PICK bound \in Nat : \A i \in 1..n : f[i] <= bound
  BY <1>3, <1>6
<1> QED
  BY <1>5, <1>7

(* The next row id is new.                                                   *)
LEMMA RowIsNew ==
    ASSUME NEW kind, NEW store, P!Table(store, kind)
    PROVE  P!Row(store) \in Nat /\ P!Row(store) \notin DOMAIN store
<1>1. DOMAIN store \subseteq Nat /\ IsFiniteSet(DOMAIN store)
  BY SameCounts DEF P!Table
<1>2. CASE DOMAIN store = {}
  BY <1>2 DEF P!Row
<1>3. CASE DOMAIN store # {}
  <2>1. PICK bound \in Nat : \A x \in DOMAIN store : x <= bound
    BY <1>1, Bounded
  <2>2. DOMAIN store \subseteq 0..bound
    BY <1>1, <2>1
  <2>3. P!Max(DOMAIN store) \in DOMAIN store /\ \A y \in DOMAIN store : P!Max(DOMAIN store) >= y
    BY <1>3, <2>2, Topmost
  <2>4. PICK top \in Nat : top = P!Max(DOMAIN store) /\ \A y \in DOMAIN store : y <= top
    BY <1>1, <2>3
  <2>5. P!Row(store) = top + 1
    BY <1>3, <2>4 DEF P!Row
  <2> QED
    BY <2>4, <2>5
<1> QED
  BY <1>2, <1>3

(* A row is inserted, changed or deleted.                                    *)
LEMMA Inserted ==
    ASSUME NEW kind, NEW store, P!Table(store, kind), NEW i \in Nat, NEW v \in kind,
           NEW longer, longer = P!Insert(store, i, v)
    PROVE  /\ P!Table(longer, kind) /\ DOMAIN longer = DOMAIN store \cup {i}
           /\ longer[i] = v /\ \A k \in DOMAIN store : k # i => longer[k] = store[k]
<1>1. IsFiniteSet(DOMAIN store \cup {i})
  BY SameCounts, FS_AddElement DEF P!Table
<1>2. DOMAIN longer = DOMAIN store \cup {i}
  BY DEF P!Insert
<1>3. \A k \in DOMAIN store : store[k] \in kind
  BY DEF P!Table
<1> QED
  BY <1>1, <1>2, <1>3, SameCounts DEF P!Table, P!Insert

LEMMA Changed ==
    ASSUME NEW kind, NEW store, P!Table(store, kind), NEW i \in DOMAIN store, NEW v \in kind,
           NEW other, other = [store EXCEPT ![i] = v]
    PROVE  /\ P!Table(other, kind) /\ DOMAIN other = DOMAIN store
           /\ other[i] = v /\ \A k \in DOMAIN store : k # i => other[k] = store[k]
BY DEF P!Table

LEMMA Deleted ==
    ASSUME NEW kind, NEW store, P!Table(store, kind), NEW i, NEW less, less = P!Without(store, i)
    PROVE  /\ P!Table(less, kind) /\ DOMAIN less = DOMAIN store \ {i}
           /\ \A k \in DOMAIN store : k # i => less[k] = store[k]
<1>1. IsFiniteSet(DOMAIN store \ {i})
  BY SameCounts, FS_RemoveElement DEF P!Table
<1>2. less = [k \in DOMAIN store \ {i} |-> store[k]]
  BY DEF P!Without, P!Restrict
<1>3. \A k \in DOMAIN store : store[k] \in kind
  BY DEF P!Table
<1> QED
  BY <1>1, <1>2, <1>3, SameCounts DEF P!Table

Unique(s) == \A i, k \in 1..Len(s) : s[i] = s[k] => i = k

(* What is taken out of the queue is out of it, the rest stays.              *)
LEMMA Dequeued ==
    ASSUME NEW T, NEW s \in Seq(T), NEW j
    PROVE  /\ P!Filter(s, P!ToSet(s) \ {j}) \in Seq(T)
           /\ P!ToSet(P!Filter(s, P!ToSet(s) \ {j})) = P!ToSet(s) \ {j}
           /\ Unique(s) => Unique(P!Filter(s, P!ToSet(s) \ {j}))
<1> DEFINE keep == P!ToSet(s) \ {j}
<1>1. P!Filter(s, keep) = Filter(s, keep)
  BY DEF P!Filter, Filter
<1>2. PICK out : out = Filter(s, keep)
  OBVIOUS
<1>3. Kept(T, s, keep, Len(s), out)
  <2> HIDE DEF keep
  <2> QED
    BY <1>2, FilterKeeps
<1>4. out \in Seq(T) /\ DOMAIN out = 1..Len(out) /\ Len(out) \in Nat /\ DOMAIN s = 1..Len(s) /\ Len(s) \in Nat
  BY <1>3 DEF Kept
<1>5. P!ToSet(out) = keep
  <2>1. P!ToSet(out) = {out[i] : i \in 1..Len(out)} /\ P!ToSet(s) = {s[i] : i \in 1..Len(s)}
    BY <1>4 DEF P!ToSet
  <2>2. ASSUME NEW x \in keep PROVE x \in P!ToSet(out)
    <3>1. PICK i \in 1..Len(s) : s[i] = x
      BY <2>1, <2>2
    <3> HIDE DEF keep
    <3>2. \E k \in 1..Len(out) : out[k] = x
      BY <1>3, <3>1 DEF Kept
    <3> QED
      BY <2>1, <3>2
  <2>3. \A k \in 1..Len(out) : out[k] \in keep
    <3> HIDE DEF keep
    <3> QED
      BY <1>3 DEF Kept
  <2> HIDE DEF keep
  <2> QED
    BY <2>1, <2>2, <2>3
<1>6. ASSUME Unique(s), NEW i \in 1..Len(out), NEW k \in 1..Len(out), out[i] = out[k]
      PROVE  i = k
  <2>1. \A m, n \in 1..Len(out) : m < n => out[m] # out[n]
    BY <1>3, <1>4, <1>6 DEF Kept, Unique
  <2> QED
    BY <1>4, <1>6, <2>1
<1>7. Unique(s) => Unique(out)
  BY <1>6 DEF Unique
<1>8. P!Filter(s, keep) = out
  BY <1>1, <1>2
<1> QED
  BY <1>4, <1>5, <1>7, <1>8, Zenon

(* The assets of the jobs stay and keep their mark.                          *)
AssetsStay ==
    /\ P!Table(assets', P!Asset_row)
    /\ \A j \in DOMAIN jobs :
          /\ jobs[j].asset \in DOMAIN assets'
          /\ assets[jobs[j].asset].processed => assets'[jobs[j].asset].processed

(* A step that leaves jobs and pool as they are, and takes a client no       *)
(* nearer to a job than it was.                                              *)
LEMMA QuietKeeps ==
    ASSUME P!MediaInv, UNCHANGED <<jobs, queued, working>>,
           AssetsStay,
           told' \subseteq DOMAIN jobs, files' \subseteq Nat, asked' \in Nat,
           mode' \in {"up", "closing", "down"},
           req' \in [Clients -> {P!Idle} \cup P!Asked],
           \A c \in Clients :
              /\ P!Holds(c)' => P!Holds(c) /\ req'[c].job = req[c].job
              /\ P!Is(c, "submit")' => P!Is(c, "submit")
              /\ P!Is(c, "read")' => P!Is(c, "read") \/ ~P!Running(req[c].job),
           P!ToldIsOver', P!FuturesKept'
    PROVE  P!MediaInv'
<1>1. /\ P!Typed /\ (\A j \in DOMAIN jobs : P!Linked(j))
      /\ P!QueuedOnce /\ P!JobsOwned /\ P!DoneIsMarked
  BY DEF P!MediaInv
<1>0. /\ P!Table(assets', P!Asset_row)
      /\ \A j \in DOMAIN jobs :
            /\ jobs[j].asset \in DOMAIN assets'
            /\ assets[jobs[j].asset].processed => assets'[jobs[j].asset].processed
  BY DEF AssetsStay
<1>2. P!Typed'
  BY <1>0, <1>1 DEF P!Typed, P!Table
<1>3. ASSUME NEW j \in DOMAIN jobs PROVE P!Linked(j)'
  <2>1. jobs[j].asset \in DOMAIN assets' /\ (assets[jobs[j].asset].processed => assets'[jobs[j].asset].processed)
    BY <1>0
  <2>2. jobs' = jobs /\ P!Linked(j)
    BY <1>1
  <2> QED
    BY <2>1, <2>2 DEF P!Linked
<1>4. P!QueuedOnce'
  BY <1>1 DEF P!QueuedOnce
<1>5. \A j : P!Running(j)' <=> P!Running(j)
  BY DEF P!Running
<1>6. P!JobsOwned'
  BY <1>1, <1>5 DEF P!JobsOwned, P!Is, P!Holds
<1>7. P!DoneIsMarked'
  <2>1. DOMAIN working \subseteq DOMAIN jobs
    BY <1>1 DEF P!Typed
  <2>2. jobs' = jobs /\ working' = working
    OBVIOUS
  <2>3. ASSUME NEW j \in DOMAIN working, working[j].step = "done" PROVE assets'[jobs[j].asset].processed
    <3>1. j \in DOMAIN jobs /\ assets[jobs[j].asset].processed
      BY <1>1, <2>1, <2>3 DEF P!DoneIsMarked
    <3> QED
      BY <1>0, <3>1
  <2> QED
    BY <2>2, <2>3 DEF P!DoneIsMarked
<1> QED
  BY <1>2, <1>3, <1>4, <1>6, <1>7 DEF P!MediaInv

(* The same of the reports and of the futures.                               *)
LEMMA StillOver ==
    ASSUME P!ToldIsOver, UNCHANGED <<jobs, queued, working, told>>,
           \A c \in Clients : P!Is(c, "submit")' => P!Is(c, "submit") /\ req'[c].job = req[c].job
    PROVE  P!ToldIsOver'
<1>1. \A j : P!Running(j)' <=> P!Running(j)
  BY DEF P!Running
<1> QED
  BY <1>1 DEF P!ToldIsOver

LEMMA StillKept ==
    ASSUME P!FuturesKept, UNCHANGED <<jobs, queued, working, futures>>,
           \A c \in Clients : P!Is(c, "keep") => P!Is(c, "keep")' /\ req'[c].job = req[c].job
    PROVE  P!FuturesKept'
<1>1. \A j : P!Running(j)' <=> P!Running(j)
  BY DEF P!Running
<1> QED
  BY <1>1 DEF P!FuturesKept

(* A request of a client in some stage is one that was asked for.            *)
LEMMA RequestsAsked ==
    ASSUME P!Typed, NEW c \in Clients, req[c].stage # "idle"
    PROVE  req[c] \in P!Asked
BY DEF P!Typed, P!Idle

(* A client goes on, or its request ends.                                    *)
LEMMA Goes ==
    ASSUME P!Typed, NEW c \in Clients, req[c].stage # "idle", NEW stage \in P!Stages,
           P!Goto(c, stage)
    PROVE  /\ req' \in [Clients -> {P!Idle} \cup P!Asked]
           /\ req'[c].stage = stage /\ req'[c].job = req[c].job
           /\ \A d \in Clients \ {c} : req'[d] = req[d]
<1>1. PICK r \in P!Asked : r = req[c]
  BY RequestsAsked
<1>2. PICK new : new = [r EXCEPT !.stage = stage]
  OBVIOUS
<1>3. new \in P!Asked /\ new.stage = stage /\ new.job = r.job
  BY <1>2 DEF P!Asked
<1>4. req' = [req EXCEPT ![c] = new]
  BY <1>1, <1>2 DEF P!Goto
<1>5. req \in [Clients -> {P!Idle} \cup P!Asked]
  BY DEF P!Typed
<1> QED
  BY <1>1, <1>3, <1>4, <1>5

LEMMA Ends ==
    ASSUME P!Typed, NEW c \in Clients, P!End(c)
    PROVE  /\ req' \in [Clients -> {P!Idle} \cup P!Asked]
           /\ req'[c].stage = "idle"
           /\ \A d \in Clients \ {c} : req'[d] = req[d]
<1>1. P!Idle.stage = "idle"
  BY DEF P!Idle
<1> QED
  BY <1>1 DEF P!Typed, P!End

(* A step of one client that touches neither jobs nor pool and does not take *)
(* it to a job.                                                              *)
LEMMA ClientKeeps ==
    ASSUME P!MediaInv, NEW c \in Clients, UNCHANGED <<jobs, queued, working, futures, told>>,
           AssetsStay,
           files' \subseteq Nat, asked' \in Nat, mode' \in {"up", "closing", "down"},
           req' \in [Clients -> {P!Idle} \cup P!Asked],
           \A d \in Clients \ {c} : req'[d] = req[d],
           ~P!Is(c, "keep"),
           ~P!Holds(c)' \/ (/\ P!Is(c, "wait") /\ ~P!Running(req[c].job)
                            /\ P!Is(c, "read")' /\ req'[c].job = req[c].job)
    PROVE  P!MediaInv'
<1>1. P!ToldIsOver /\ P!FuturesKept
  BY DEF P!MediaInv
<1>2. \A d \in Clients :
        /\ P!Holds(d)' => P!Holds(d) /\ req'[d].job = req[d].job
        /\ P!Is(d, "submit")' => P!Is(d, "submit") /\ req'[d].job = req[d].job
        /\ P!Is(d, "read")' => P!Is(d, "read") \/ ~P!Running(req[d].job)
        /\ P!Is(d, "keep") => P!Is(d, "keep")' /\ req'[d].job = req[d].job
  BY DEF P!Holds, P!Is
<1>3. P!ToldIsOver'
  BY <1>1, <1>2, StillOver
<1>4. P!FuturesKept'
  BY <1>1, <1>2, StillKept
<1>5. told' \subseteq DOMAIN jobs
  BY DEF P!MediaInv, P!Typed
<1> QED
  BY <1>2, <1>3, <1>4, <1>5, QuietKeeps

LEMMA SameAssets == ASSUME P!MediaInv, assets' = assets PROVE AssetsStay
BY DEF P!MediaInv, P!Typed, P!Linked, AssetsStay

LEMMA BeginKeeps ==
    ASSUME EngineAndMediaAssumption, P!MediaInv, NEW c \in Clients, NEW ask \in Asks, P!Begin(c, ask)
    PROVE  P!MediaInv'
<1>1. P!Typed
  BY DEF P!MediaInv
<1>2. /\ P!Is(c, "idle") /\ asked' = asked + 1
      /\ UNCHANGED <<assets, jobs, files, queued, working, futures, told, mode>>
  BY DEF P!Begin, P!pool
<1>3. PICK new : new = [op |-> ask.op, stage |-> P!First(ask.op), asset |-> ask.asset,
                        process |-> ask.process, wait |-> ask.wait, job |-> None,
                        file |-> IF ask.op = "upload" THEN asked + 2 ELSE 1]
  OBVIOUS
<1>4. asked \in Nat
  BY <1>1 DEF P!Typed
<1>5. P!First(ask.op) \in {"write", "enqueue", "load"}
  BY DEF P!First
<1>6. new \in P!Asked /\ new.stage \in {"write", "enqueue", "load"}
  BY <1>3, <1>4, <1>5, Asking DEF P!Asked, P!Stages, P!Enqueuing, P!Ops
<1>7. req' = [req EXCEPT ![c] = new]
  BY <1>3 DEF P!Begin
<1>8. /\ req' \in [Clients -> {P!Idle} \cup P!Asked] /\ req'[c] = new
      /\ \A d \in Clients \ {c} : req'[d] = req[d]
  BY <1>1, <1>6, <1>7 DEF P!Typed
<1>9. ~P!Is(c, "keep") /\ ~P!Holds(c)'
  BY <1>2, <1>6, <1>8 DEF P!Is, P!Holds
<1>10. files' \subseteq Nat /\ asked' \in Nat /\ mode' \in {"up", "closing", "down"}
  BY <1>1, <1>2, <1>4 DEF P!Typed
<1> QED
  BY <1>2, <1>8, <1>9, <1>10, SameAssets, ClientKeeps

(* What a client may do to assets and files before it has a job.             *)
LEMMA PlainKeeps ==
    ASSUME P!MediaInv, NEW c \in Clients, AssetsStay, files' \subseteq Nat,
           UNCHANGED <<jobs, queued, working, futures, told, asked, mode>>,
           req[c].stage \notin {"idle", "keep"},
           \/ P!End(c)
           \/ \E stage \in P!Stages \ {"submit", "keep", "wait", "read"} : P!Goto(c, stage)
           \/ P!Goto(c, "read") /\ P!Is(c, "wait") /\ ~P!Running(req[c].job)
    PROVE  P!MediaInv'
<1>1. P!Typed
  BY DEF P!MediaInv
<1>2. asked' \in Nat /\ mode' \in {"up", "closing", "down"}
  BY <1>1 DEF P!Typed
<1>3. /\ req' \in [Clients -> {P!Idle} \cup P!Asked] /\ \A d \in Clients \ {c} : req'[d] = req[d]
      /\ \/ req'[c].stage \notin {"submit", "keep", "wait", "read"}
         \/ /\ req'[c].stage = "read" /\ req'[c].job = req[c].job
            /\ P!Is(c, "wait") /\ ~P!Running(req[c].job)
  <2>1. CASE P!End(c)
    BY <1>1, <2>1, Ends
  <2>2. ASSUME NEW stage \in P!Stages, P!Goto(c, stage)
        PROVE  /\ req' \in [Clients -> {P!Idle} \cup P!Asked]
               /\ req'[c].stage = stage /\ req'[c].job = req[c].job
               /\ \A d \in Clients \ {c} : req'[d] = req[d]
    BY <1>1, <2>2, Goes
  <2>3. "read" \in P!Stages
    BY DEF P!Stages
  <2> QED
    BY <2>1, <2>2, <2>3
<1>4. ~P!Is(c, "keep") /\ (P!Holds(c)' <=> req'[c].stage \in {"submit", "keep", "wait", "read"})
      /\ (P!Is(c, "read")' <=> req'[c].stage = "read")
  BY DEF P!Is, P!Holds
<1> QED
  BY <1>2, <1>3, <1>4, ClientKeeps

(* Uploads, edits and deletions of assets.                                   *)
LEMMA AssetRequestsKeep ==
    ASSUME EngineAndMediaAssumption, P!MediaInv, NEW c \in Clients,
           \/ P!write_stream(c) \/ P!update_asset(c)
           \/ P!delete_file(c) \/ P!delete_asset(c) \/ P!WaitEnds(c)
    PROVE  P!MediaInv'
<1>1. P!Typed /\ \A j \in DOMAIN jobs : P!Linked(j)
  BY DEF P!MediaInv
<1>2. {"insert", "delete_row"} \subseteq P!Stages \ {"submit", "keep", "wait", "read"}
  BY DEF P!Stages, P!Enqueuing
<1>3. files \subseteq Nat
  BY <1>1 DEF P!Typed
<1>4. CASE P!write_stream(c)
  <2>1. req[c].file \in Nat
    BY <1>1, <1>4, RequestsAsked DEF P!write_stream, P!Is, P!Asked
  <2>2. files' \subseteq Nat /\ AssetsStay
    BY <1>3, <1>4, <2>1, SameAssets DEF P!write_stream
  <2> QED
    BY <1>2, <1>4, <2>2, PlainKeeps DEF P!write_stream, P!Is, P!Same, P!pool
<1>5. CASE P!update_asset(c)
  <2>1. AssetsStay
    <3>1. PICK a : a = req[c].asset
      OBVIOUS
    <3>2. CASE a \notin DOMAIN assets
      BY <1>5, <3>1, <3>2, SameAssets DEF P!update_asset
    <3>3. CASE a \in DOMAIN assets
      <4>1. PICK entry \in P!Asset_row : entry = assets[a]
        BY <1>1, <3>3 DEF P!Typed, P!Table
      <4>2. PICK new : new = [entry EXCEPT !.metadata = {"client"}]
        OBVIOUS
      <4>3. new \in P!Asset_row /\ new.processed = entry.processed
        BY <4>2 DEF P!Asset_row
      <4>4. assets' = [assets EXCEPT ![a] = new]
        BY <1>5, <3>1, <3>3, <4>1, <4>2 DEF P!update_asset
      <4>5. /\ P!Table(assets', P!Asset_row) /\ DOMAIN assets' = DOMAIN assets /\ assets'[a] = new
            /\ \A k \in DOMAIN assets : k # a => assets'[k] = assets[k]
        BY <1>1, <3>3, <4>3, <4>4, Changed DEF P!Typed
      <4> QED
        BY <1>1, <4>1, <4>3, <4>5 DEF AssetsStay, P!Linked
    <3> QED
      BY <3>2, <3>3
  <2> QED
    BY <1>3, <1>5, <2>1, PlainKeeps DEF P!update_asset, P!Is, P!Same, P!pool
<1>6. CASE P!delete_file(c)
  <2>1. files' \subseteq Nat /\ AssetsStay
    BY <1>3, <1>6, SameAssets DEF P!delete_file
  <2> QED
    BY <1>2, <1>6, <2>1, PlainKeeps DEF P!delete_file, P!Is, P!Same, P!pool
<1>7. CASE P!delete_asset(c)
  <2>1. AssetsStay
    <3>1. PICK a : a = req[c].asset
      OBVIOUS
    <3>2. CASE \E j \in DOMAIN jobs : jobs[j].asset = a
      BY <1>7, <3>1, <3>2, SameAssets DEF P!delete_asset
    <3>3. CASE ~\E j \in DOMAIN jobs : jobs[j].asset = a
      <4>1. assets' = P!Without(assets, a)
        BY <1>7, <3>1, <3>3 DEF P!delete_asset
      <4>2. P!Table(assets, P!Asset_row)
        BY <1>1 DEF P!Typed
      <4>3. /\ P!Table(assets', P!Asset_row) /\ DOMAIN assets' = DOMAIN assets \ {a}
            /\ \A k \in DOMAIN assets : k # a => assets'[k] = assets[k]
        BY <4>1, <4>2, Deleted
      <4> QED
        BY <1>1, <3>3, <4>3 DEF AssetsStay, P!Linked
    <3> QED
      BY <3>2, <3>3
  <2> QED
    BY <1>3, <1>7, <2>1, PlainKeeps DEF P!delete_asset, P!Is, P!Same, P!pool
<1>8. CASE P!WaitEnds(c)
  BY <1>3, <1>8, SameAssets, PlainKeeps DEF P!WaitEnds, P!Is, P!Same, P!pool
<1> QED
  BY <1>4, <1>5, <1>6, <1>7, <1>8

LEMMA AssetInserted ==
    ASSUME NEW a \in Nat, NEW new \in P!Asset_row, P!Table(assets, P!Asset_row),
           assets' = P!Insert(assets, a, new)
    PROVE  /\ P!Table(assets', P!Asset_row) /\ DOMAIN assets' = DOMAIN assets \cup {a}
           /\ assets'[a] = new /\ \A k \in DOMAIN assets : k # a => assets'[k] = assets[k]
<1>1. P!Table(assets', P!Asset_row)
  BY Inserted, Zenon
<1>2. DOMAIN assets' = DOMAIN assets \cup {a}
  BY DEF P!Insert
<1>3. assets'[a] = new
  BY DEF P!Insert
<1>4. \A k \in DOMAIN assets : k # a => assets'[k] = assets[k]
  BY DEF P!Insert
<1> QED
  BY <1>1, <1>2, <1>3, <1>4

LEMMA JobInserted ==
    ASSUME NEW n \in Nat, NEW entry \in P!Job_row, P!Table(jobs, P!Job_row),
           jobs' = P!Insert(jobs, n, entry)
    PROVE  /\ P!Table(jobs', P!Job_row) /\ DOMAIN jobs' = DOMAIN jobs \cup {n}
           /\ jobs'[n] = entry /\ \A k \in DOMAIN jobs : k # n => jobs'[k] = jobs[k]
<1>1. P!Table(jobs', P!Job_row)
  BY Inserted, Zenon
<1>2. DOMAIN jobs' = DOMAIN jobs \cup {n}
  BY DEF P!Insert
<1>3. jobs'[n] = entry
  BY DEF P!Insert
<1>4. \A k \in DOMAIN jobs : k # n => jobs'[k] = jobs[k]
  BY DEF P!Insert
<1> QED
  BY <1>1, <1>2, <1>3, <1>4

LEMMA WorkInserted ==
    ASSUME NEW n \in Nat, NEW entry \in P!Work, P!Table(working, P!Work),
           working' = P!Insert(working, n, entry)
    PROVE  /\ P!Table(working', P!Work) /\ DOMAIN working' = DOMAIN working \cup {n}
           /\ working'[n] = entry /\ \A k \in DOMAIN working : k # n => working'[k] = working[k]
<1>1. P!Table(working', P!Work)
  BY Inserted, Zenon
<1>2. DOMAIN working' = DOMAIN working \cup {n}
  BY DEF P!Insert
<1>3. working'[n] = entry
  BY DEF P!Insert
<1>4. \A k \in DOMAIN working : k # n => working'[k] = working[k]
  BY DEF P!Insert
<1> QED
  BY <1>1, <1>2, <1>3, <1>4

LEMMA JobChanged ==
    ASSUME NEW n \in DOMAIN jobs, NEW entry \in P!Job_row, P!Table(jobs, P!Job_row),
           jobs' = [jobs EXCEPT ![n] = entry]
    PROVE  /\ P!Table(jobs', P!Job_row) /\ DOMAIN jobs' = DOMAIN jobs
           /\ jobs'[n] = entry /\ \A k \in DOMAIN jobs : k # n => jobs'[k] = jobs[k]
BY Changed

LEMMA WorkDeleted ==
    ASSUME NEW n, P!Table(working, P!Work), working' = P!Without(working, n)
    PROVE  /\ P!Table(working', P!Work) /\ DOMAIN working' = DOMAIN working \ {n}
           /\ \A k \in DOMAIN working : k # n => working'[k] = working[k]
<1>1. P!Table(working', P!Work)
  BY Deleted, Zenon
<1>2. DOMAIN working' = DOMAIN working \ {n}
  BY Deleted, Zenon
<1>3. \A k \in DOMAIN working : k # n => working'[k] = working[k]
  BY DEF P!Without, P!Restrict
<1> QED
  BY <1>1, <1>2, <1>3

LEMMA WorkChanged ==
    ASSUME NEW n \in DOMAIN working, NEW entry \in P!Work, P!Table(working, P!Work),
           working' = [working EXCEPT ![n] = entry]
    PROVE  /\ P!Table(working', P!Work) /\ DOMAIN working' = DOMAIN working
           /\ working'[n] = entry /\ \A k \in DOMAIN working : k # n => working'[k] = working[k]
BY Changed

(* The requests that change more of what the client carries than its stage.  *)
LEMMA CarriesKeep ==
    ASSUME EngineAndMediaAssumption, P!MediaInv, NEW c \in Clients,
           P!upload_asset(c) \/ P!_asset_or_404(c)
    PROVE  P!MediaInv'
<1>1. P!Typed /\ \A j \in DOMAIN jobs : P!Linked(j)
  BY DEF P!MediaInv
<1>2. files' \subseteq Nat /\ asked' \in Nat /\ mode' \in {"up", "closing", "down"}
      /\ UNCHANGED <<jobs, queued, working, futures, told>>
  BY <1>1 DEF P!Typed, P!upload_asset, P!_asset_or_404, P!Same, P!pool
<1>3. req[c].stage \in {"insert", "load"}
  BY DEF P!upload_asset, P!_asset_or_404, P!Is
<1>4. PICK r \in P!Asked : r = req[c]
  BY <1>1, <1>3, RequestsAsked
<1>5. AssetsStay
  <2>1. CASE P!_asset_or_404(c)
    BY <2>1, SameAssets DEF P!_asset_or_404
  <2>2. CASE P!upload_asset(c)
    <3>1. PICK a \in Nat : a = P!Row(assets) /\ a \notin DOMAIN assets
      BY <1>1, RowIsNew DEF P!Typed
    <3>2. PICK new : new = [file |-> r.file, processed |-> FALSE, metadata |-> {}]
      OBVIOUS
    <3>3. new \in P!Asset_row
      BY <3>2 DEF P!Asset_row, P!Asked
    <3>4. assets' = P!Insert(assets, a, new)
      BY <1>4, <2>2, <3>1, <3>2 DEF P!upload_asset
    <3>5. /\ P!Table(assets', P!Asset_row) /\ DOMAIN assets' = DOMAIN assets \cup {a}
          /\ assets'[a] = new /\ \A k \in DOMAIN assets : k # a => assets'[k] = assets[k]
      <4>1. P!Table(assets, P!Asset_row)
        BY <1>1 DEF P!Typed
      <4> QED
        BY <3>1, <3>3, <3>4, <4>1, AssetInserted
    <3> QED
      BY <1>1, <3>1, <3>5 DEF AssetsStay, P!Linked
  <2> QED
    BY <2>1, <2>2
<1>6. /\ req' \in [Clients -> {P!Idle} \cup P!Asked] /\ \A d \in Clients \ {c} : req'[d] = req[d]
      /\ req'[c].stage \in {"idle", "enqueue"} \cup P!Ops
  <2>1. CASE P!End(c)
    BY <1>1, <2>1, Ends
  <2>2. ASSUME NEW new \in P!Asked, req' = [req EXCEPT ![c] = new]
        PROVE  /\ req' \in [Clients -> {P!Idle} \cup P!Asked] /\ req'[c] = new
               /\ \A d \in Clients \ {c} : req'[d] = req[d]
    BY <1>1, <2>2 DEF P!Typed
  <2>3. CASE P!upload_asset(c) /\ ~P!End(c)
    <3>1. PICK a \in Nat : a = P!Row(assets)
      BY <1>1, RowIsNew DEF P!Typed
    <3>2. PICK new : new = [r EXCEPT !.stage = "enqueue", !.asset = a]
      OBVIOUS
    <3>3. new \in P!Asked /\ new.stage = "enqueue"
      BY <3>2 DEF P!Asked, P!Stages, P!Enqueuing
    <3>4. req' = [req EXCEPT ![c].stage = "enqueue", ![c].asset = P!Row(assets)]
      BY <2>3 DEF P!upload_asset
    <3>5. req' = [req EXCEPT ![c] = new]
      BY <1>1, <1>4, <3>1, <3>2, <3>4 DEF P!Typed
    <3>6. /\ req' \in [Clients -> {P!Idle} \cup P!Asked] /\ req'[c] = new
          /\ \A d \in Clients \ {c} : req'[d] = req[d]
      BY <2>2, <3>3, <3>5
    <3> QED
      BY <3>3, <3>6
  <2>4. CASE P!_asset_or_404(c) /\ ~P!End(c)
    <3>1. P!Is(c, "load") /\ r.asset \in DOMAIN assets
      BY <1>4, <2>4 DEF P!_asset_or_404
    <3>2. PICK new : new = [r EXCEPT !.stage = r.op, !.file = assets[r.asset].file]
      OBVIOUS
    <3>3. assets[r.asset].file \in Nat
      BY <1>1, <3>1 DEF P!Typed, P!Table, P!Asset_row
    <3>4. r.op \in P!Ops
      BY DEF P!Asked
    <3>5. req' = [req EXCEPT ![c] = new]
      BY <1>1, <1>4, <2>4, <3>1, <3>2 DEF P!_asset_or_404, P!Typed
    <3>6. new \in P!Asked /\ new.stage \in P!Ops
      BY <3>2, <3>3, <3>4 DEF P!Asked, P!Stages
    <3>7. /\ req' \in [Clients -> {P!Idle} \cup P!Asked] /\ req'[c] = new
          /\ \A d \in Clients \ {c} : req'[d] = req[d]
      BY <2>2, <3>5, <3>6
    <3> QED
      BY <3>6, <3>7
  <2> QED
    BY <2>1, <2>3, <2>4
<1>7. ~P!Is(c, "keep") /\ ~P!Holds(c)'
  BY <1>3, <1>6 DEF P!Is, P!Holds, P!Ops
<1> QED
  BY <1>2, <1>5, <1>6, <1>7, ClientKeeps

(* What the invariant says, part by part.                                    *)
LEMMA MediaParts ==
    ASSUME P!MediaInv
    PROVE  /\ P!Typed /\ P!QueuedOnce /\ P!JobsOwned /\ P!ToldIsOver /\ P!DoneIsMarked /\ P!FuturesKept
           /\ P!Table(assets, P!Asset_row) /\ P!Table(jobs, P!Job_row) /\ P!Table(working, P!Work)
           /\ DOMAIN working \subseteq DOMAIN jobs /\ told \subseteq DOMAIN jobs
           /\ queued \in Seq(DOMAIN jobs) /\ files \subseteq Nat /\ asked \in Nat
           /\ mode \in {"up", "closing", "down"} /\ req \in [Clients -> {P!Idle} \cup P!Asked]
           /\ \A j \in DOMAIN jobs : P!Linked(j)
BY DEF P!MediaInv, P!Typed

(* The jobs in the queue.                                                    *)
LEMMA InQueue ==
    ASSUME NEW T, NEW s \in Seq(T)
    PROVE  /\ \A x : x \in P!ToSet(s) <=> \E i \in 1..Len(s) : s[i] = x
           /\ P!ToSet(s) \subseteq T
<1>1. DOMAIN s = 1..Len(s) /\ \A i \in 1..Len(s) : s[i] \in T
  BY SeqDef
<1> QED
  BY <1>1 DEF P!ToSet

(* A job gets its row, and its client carries it.                            *)
LEMMA CreateKeeps ==
    ASSUME EngineAndMediaAssumption, P!MediaInv, NEW c \in Clients, P!EnqueueCreate(c)
    PROVE  P!MediaInv'
<1>1. CASE req[c].asset \notin DOMAIN assets
  BY <1>1, MediaParts, SameAssets, PlainKeeps DEF P!EnqueueCreate, P!Is, P!Same, P!pool
<1>2. CASE req[c].asset \in DOMAIN assets
  <2>1. /\ UNCHANGED <<assets, files, queued, working, futures, told, asked, mode>>
        /\ P!Is(c, "enqueue")
    BY DEF P!EnqueueCreate, P!Same, P!pool
  <2>2. PICK r \in P!Asked : r = req[c]
    BY <2>1, MediaParts, RequestsAsked DEF P!Is
  <2>3. PICK n \in Nat : n = P!Row(jobs) /\ n \notin DOMAIN jobs
    BY MediaParts, RowIsNew
  <2>4. PICK entry : entry = [asset |-> r.asset, status |-> "PENDING", progress |-> 0]
    OBVIOUS
  <2>5. entry \in P!Job_row
    BY <2>4 DEF P!Job_row, P!Asked
  <2>6. jobs' = P!Insert(jobs, n, entry)
    BY <1>2, <2>2, <2>3, <2>4 DEF P!EnqueueCreate
  <2>7. /\ P!Table(jobs', P!Job_row) /\ DOMAIN jobs' = DOMAIN jobs \cup {n}
        /\ jobs'[n] = entry /\ \A k \in DOMAIN jobs : k # n => jobs'[k] = jobs[k]
    BY <2>3, <2>5, <2>6, MediaParts, JobInserted
  <2>8. PICK new : new = [r EXCEPT !.stage = "submit", !.job = n]
    OBVIOUS
  <2>9. new \in P!Asked /\ new.stage = "submit" /\ new.job = n
    BY <2>3, <2>8 DEF P!Asked, P!Stages, P!Enqueuing
  <2>10. req' = [req EXCEPT ![c] = new]
    BY <1>2, <2>2, <2>3, <2>8, MediaParts DEF P!EnqueueCreate
  <2>11. /\ req' \in [Clients -> {P!Idle} \cup P!Asked] /\ req'[c] = new
         /\ \A d \in Clients \ {c} : req'[d] = req[d]
    BY <2>9, <2>10, MediaParts
  <2>12. \A j : P!Running(j)' <=> P!Running(j)
    BY <2>1 DEF P!Running
  <2>13. \A j : P!Running(j) => j \in DOMAIN jobs
    BY MediaParts, InQueue DEF P!Running
  <2>14. P!Typed'
    <3>1. queued' \in Seq(DOMAIN jobs')
      BY <2>1, <2>7, MediaParts
    <3> QED
      BY <2>1, <2>7, <2>11, <3>1, MediaParts DEF P!Typed, P!Table
  <2>15. ASSUME NEW j \in DOMAIN jobs' PROVE P!Linked(j)'
    <3>1. CASE j = n
      <4>1. jobs'[j] = entry /\ entry.asset \in DOMAIN assets' /\ entry.status = "PENDING" /\ entry.progress = 0
        BY <1>2, <2>1, <2>2, <2>4, <2>7, <3>1
      <4> QED
        BY <4>1 DEF P!Linked
    <3>2. CASE j # n
      <4>1. jobs'[j] = jobs[j] /\ P!Linked(j) /\ assets' = assets
        BY <2>1, <2>7, <2>15, <3>2, MediaParts
      <4> QED
        BY <4>1 DEF P!Linked
    <3> QED
      BY <3>1, <3>2
  <2>16. P!QueuedOnce'
    BY <2>1, MediaParts DEF P!QueuedOnce
  <2>17. P!JobsOwned'
    <3>1. \A d \in Clients : P!Holds(d)' => IF d = c THEN req'[d].job = n
                                            ELSE P!Holds(d) /\ req'[d].job = req[d].job /\ req[d].job \in DOMAIN jobs
      BY <2>9, <2>11, MediaParts DEF P!JobsOwned, P!Holds
    <3>2. \A d \in Clients : req'[d].stage \in {"submit", "read"} => ~P!Running(req'[d].job)
      BY <2>3, <2>9, <2>11, <2>13, MediaParts DEF P!JobsOwned
    <3> QED
      BY <2>3, <2>7, <2>12, <3>1, <3>2, MediaParts DEF P!JobsOwned
  <2>18. P!ToldIsOver'
    <3>1. \A j \in told : jobs'[j] = jobs[j] /\ j # n
      BY <2>3, <2>7, MediaParts
    <3>2. \A d \in Clients : P!Is(d, "submit")' => d = c \/ (P!Is(d, "submit") /\ req'[d].job = req[d].job)
      BY <2>11 DEF P!Is
    <3> QED
      BY <2>1, <2>9, <2>11, <2>12, <3>1, <3>2, MediaParts DEF P!ToldIsOver
  <2>19. P!DoneIsMarked'
    <3>1. \A j \in DOMAIN working : jobs'[j] = jobs[j]
      BY <2>3, <2>7, MediaParts
    <3> QED
      BY <2>1, <3>1, MediaParts DEF P!DoneIsMarked
  <2>20. P!FuturesKept'
    <3>1. \A d \in Clients : P!Is(d, "keep") => P!Is(d, "keep")' /\ req'[d].job = req[d].job
      BY <2>1, <2>11 DEF P!Is
    <3> QED
      BY <2>1, <2>12, <2>13, <3>1, MediaParts DEF P!FuturesKept
  <2> QED
    BY <2>14, <2>15, <2>16, <2>17, <2>18, <2>19, <2>20 DEF P!MediaInv
<1> QED
  BY <1>1, <1>2

(* The pool takes a job, once.                                               *)
LEMMA SubmitKeeps ==
    ASSUME P!MediaInv, NEW c \in Clients, P!EnqueueSubmit(c)
    PROVE  P!MediaInv'
<1>1. CASE mode # "up"
  BY <1>1, MediaParts, SameAssets, PlainKeeps DEF P!EnqueueSubmit, P!Is, P!Same
<1>2. CASE mode = "up"
  <2>1. /\ UNCHANGED <<assets, jobs, files, working, futures, told, asked, mode>>
        /\ P!Is(c, "submit") /\ P!Goto(c, "keep")
    BY <1>2 DEF P!EnqueueSubmit, P!Same
  <2>2. PICK n \in DOMAIN jobs : n = req[c].job
    BY <2>1, MediaParts DEF P!JobsOwned, P!Holds, P!Is
  <2>3. /\ req' \in [Clients -> {P!Idle} \cup P!Asked]
        /\ req'[c].stage = "keep" /\ req'[c].job = n
        /\ \A d \in Clients \ {c} : req'[d] = req[d]
    BY <2>1, <2>2, MediaParts, Goes DEF P!Is, P!Stages, P!Enqueuing
  <2>4. PICK line \in Seq(DOMAIN jobs) : line = queued
    BY MediaParts
  <2>5. queued' = Append(line, n)
    BY <1>2, <2>2, <2>4 DEF P!EnqueueSubmit
  <2>6. PICK longer : longer = Append(line, n)
    OBVIOUS
  <2>7. /\ longer \in Seq(DOMAIN jobs) /\ Len(line) \in Nat /\ Len(longer) = Len(line) + 1
        /\ longer[Len(line) + 1] = n /\ \A i \in 1..Len(line) : longer[i] = line[i]
    BY <2>6
  <2>8. P!ToSet(longer) = P!ToSet(line) \cup {n}
    <3>1. \A x : x \in P!ToSet(longer) <=> \E i \in 1..Len(longer) : longer[i] = x
      BY <2>7, InQueue
    <3>2. \A x : x \in P!ToSet(line) <=> \E i \in 1..Len(line) : line[i] = x
      BY InQueue
    <3>3. \A i \in 1..Len(longer) : i \in 1..Len(line) \/ i = Len(line) + 1
      BY <2>7
    <3>4. 1..Len(line) \subseteq 1..Len(longer) /\ Len(line) + 1 \in 1..Len(longer)
      BY <2>7
    <3> QED
      BY <2>7, <3>1, <3>2, <3>3, <3>4
  <2>9. queued' = longer /\ working' = working /\ queued = line
    BY <2>1, <2>4, <2>5, <2>6
  <2>10. \A j : P!Running(j)' <=> P!Running(j) \/ j = n
    BY <2>8, <2>9 DEF P!Running
  <2>11. ~P!Running(n)
    BY <2>1, <2>2, MediaParts DEF P!JobsOwned, P!Is
  <2>12. P!Typed'
    BY <2>1, <2>3, <2>7, <2>9, MediaParts DEF P!Typed, P!Table
  <2>13. \A j \in DOMAIN jobs' : P!Linked(j)'
    BY <2>1, MediaParts DEF P!Linked
  <2>14. P!QueuedOnce'
    <3>1. /\ \A i, k \in 1..Len(line) : line[i] = line[k] => i = k
          /\ \A i \in 1..Len(line) : line[i] \notin DOMAIN working
      BY <2>4, MediaParts DEF P!QueuedOnce
    <3>2. n \notin DOMAIN working /\ \A i \in 1..Len(line) : line[i] # n
      BY <2>4, <2>11, InQueue DEF P!Running
    <3>3. \A i, k \in 1..Len(longer) : longer[i] = longer[k] => i = k
      BY <2>7, <3>1, <3>2
    <3>4. \A i \in 1..Len(longer) : longer[i] \notin DOMAIN working
      BY <2>7, <3>1, <3>2
    <3> QED
      BY <2>9, <3>3, <3>4 DEF P!QueuedOnce
  <2>15. P!JobsOwned'
    <3>1. \A d \in Clients : P!Holds(d)' => P!Holds(d) /\ req'[d].job = req[d].job
      BY <2>1, <2>2, <2>3 DEF P!Holds, P!Is
    <3>2. \A d \in Clients : req'[d].stage \in {"submit", "read"} => d # c /\ req'[d] = req[d]
      BY <2>3
    <3>3. \A d \in Clients : d # c /\ P!Holds(d) => req[d].job # n
      BY <2>1, <2>2, MediaParts DEF P!JobsOwned, P!Holds, P!Is
    <3>4. \A d \in Clients : req'[d].stage \in {"submit", "read"} =>
             req'[d].job \notin P!ToSet(queued') /\ req'[d].job \notin DOMAIN working'
      BY <2>8, <2>9, <3>2, <3>3, MediaParts DEF P!JobsOwned, P!Holds, P!Running
    <3> QED
      BY <2>1, <3>1, <3>4, MediaParts DEF P!JobsOwned, P!Running
  <2>16. P!ToldIsOver'
    <3>1. n \notin told
      BY <2>1, <2>2, MediaParts DEF P!ToldIsOver
    <3>2. \A d \in Clients : P!Is(d, "submit")' => P!Is(d, "submit") /\ req'[d].job = req[d].job
      BY <2>3 DEF P!Is
    <3> QED
      BY <2>1, <2>10, <3>1, <3>2, MediaParts DEF P!ToldIsOver
  <2>17. P!DoneIsMarked'
    BY <2>1, MediaParts DEF P!DoneIsMarked
  <2>18. P!FuturesKept'
    <3>1. \A d \in Clients : P!Is(d, "keep") => P!Is(d, "keep")' /\ req'[d].job = req[d].job
      BY <2>1, <2>3 DEF P!Is
    <3>2. P!Is(c, "keep")' /\ req'[c].job = n
      BY <2>3 DEF P!Is
    <3> QED
      BY <2>1, <2>10, <3>1, <3>2, MediaParts DEF P!FuturesKept
  <2> QED
    BY <2>12, <2>13, <2>14, <2>15, <2>16, <2>17, <2>18 DEF P!MediaInv
<1> QED
  BY <1>1, <1>2

(* The future is kept while the job is in the pool.                          *)
LEMMA KeepKeeps ==
    ASSUME P!MediaInv, NEW c \in Clients, P!EnqueueKeep(c)
    PROVE  P!MediaInv'
<1>1. /\ UNCHANGED <<assets, jobs, files, queued, working, told, asked, mode>>
      /\ P!Is(c, "keep")
  BY DEF P!EnqueueKeep, P!Same
<1>2. PICK n \in DOMAIN jobs : n = req[c].job
  BY <1>1, MediaParts DEF P!JobsOwned, P!Holds, P!Is
<1>3. /\ req' \in [Clients -> {P!Idle} \cup P!Asked] /\ \A d \in Clients \ {c} : req'[d] = req[d]
      /\ \/ req'[c].stage = "idle"
         \/ req'[c].stage = "wait" /\ req'[c].job = n
  <2>1. CASE P!End(c)
    BY <2>1, MediaParts, Ends
  <2>2. CASE P!Goto(c, "wait")
    BY <1>1, <1>2, <2>2, MediaParts, Goes DEF P!Is, P!Stages
  <2> QED
    BY <2>1, <2>2 DEF P!EnqueueKeep
<1>4. \A d \in Clients :
        /\ P!Holds(d)' => P!Holds(d) /\ req'[d].job = req[d].job
        /\ P!Is(d, "submit")' => P!Is(d, "submit") /\ req'[d].job = req[d].job
        /\ P!Is(d, "read")' => P!Is(d, "read")
  BY <1>1, <1>2, <1>3 DEF P!Holds, P!Is
<1>5. P!ToldIsOver'
  BY <1>1, <1>4, MediaParts, StillOver
<1>6. \A j : P!Running(j)' <=> P!Running(j)
  BY <1>1 DEF P!Running
<1>7. P!FuturesKept'
  <2>1. futures' = futures \cup (IF P!Running(n) THEN {n} ELSE {})
    BY <1>2 DEF P!EnqueueKeep, P!Kept
  <2>2. \A d \in Clients : P!Is(d, "keep") => (d = c /\ req[d].job = n) \/ (P!Is(d, "keep")' /\ req'[d].job = req[d].job)
    BY <1>2, <1>3 DEF P!Is
  <2> QED
    BY <1>1, <1>6, <2>1, <2>2, MediaParts DEF P!FuturesKept
<1>8. told' \subseteq DOMAIN jobs /\ files' \subseteq Nat /\ asked' \in Nat /\ mode' \in {"up", "closing", "down"}
  BY <1>1, MediaParts
<1> QED
  BY <1>1, <1>3, <1>4, <1>5, <1>7, <1>8, SameAssets, QuietKeeps

(* A job that is cancelled before a thread has taken it leaves the pool.     *)
LEMMA TimeOutKeeps ==
    ASSUME P!MediaInv, NEW c \in Clients, P!WaitTimesOut(c)
    PROVE  P!MediaInv'
<1>1. /\ UNCHANGED <<assets, jobs, files, working, told, asked, mode>>
      /\ P!Is(c, "wait") /\ P!End(c)
  BY DEF P!WaitTimesOut, P!Same
<1>2. PICK n \in DOMAIN jobs : n = req[c].job
  BY <1>1, MediaParts DEF P!JobsOwned, P!Holds, P!Is
<1>3. /\ req' \in [Clients -> {P!Idle} \cup P!Asked] /\ req'[c].stage = "idle"
      /\ \A d \in Clients \ {c} : req'[d] = req[d]
  BY <1>1, MediaParts, Ends
<1>4. PICK line \in Seq(DOMAIN jobs) : line = queued
  BY MediaParts
<1>5. PICK out : out = P!Filter(line, P!ToSet(line) \ {n})
  OBVIOUS
<1>6. queued' = out /\ futures' = (IF n \in DOMAIN working THEN futures ELSE futures \ {n})
  BY <1>2, <1>4, <1>5 DEF P!WaitTimesOut
<1>7. /\ \A i, k \in 1..Len(line) : line[i] = line[k] => i = k
      /\ \A i \in 1..Len(line) : line[i] \notin DOMAIN working
  BY <1>4, MediaParts DEF P!QueuedOnce
<1>8. /\ out \in Seq(DOMAIN jobs) /\ P!ToSet(out) = P!ToSet(line) \ {n}
      /\ \A i, k \in 1..Len(out) : out[i] = out[k] => i = k
  <2>1. out \in Seq(DOMAIN jobs)
    BY <1>4, <1>5, Dequeued, Zenon
  <2>2. P!ToSet(out) = P!ToSet(line) \ {n}
    BY <1>4, <1>5, Dequeued, Zenon
  <2>3. Unique(line)
    BY <1>7 DEF Unique
  <2>4. Unique(out)
    BY <1>4, <1>5, <2>3, Dequeued, Zenon
  <2> QED
    BY <2>1, <2>2, <2>4 DEF Unique
<1>9. \A x \in P!ToSet(line) : x \notin DOMAIN working
  BY <1>7, InQueue
<1>10. \A j : P!Running(j) <=> j \in P!ToSet(line) \/ j \in DOMAIN working
  BY <1>4 DEF P!Running
<1>11. \A j : P!Running(j)' <=> (j \in P!ToSet(line) /\ j # n) \/ j \in DOMAIN working
  BY <1>1, <1>6, <1>8 DEF P!Running
<1>12. P!Typed'
  BY <1>1, <1>3, <1>6, <1>8, MediaParts DEF P!Typed, P!Table
<1>13. \A j \in DOMAIN jobs' : P!Linked(j)'
  BY <1>1, MediaParts DEF P!Linked
<1>14. P!QueuedOnce'
  <2>1. \A i \in 1..Len(out) : out[i] \notin DOMAIN working
    BY <1>8, <1>9, InQueue
  <2> QED
    BY <1>1, <1>6, <1>8, <2>1 DEF P!QueuedOnce
<1>15. P!JobsOwned'
  <2>1. \A d \in Clients : P!Holds(d)' => P!Holds(d) /\ req'[d] = req[d] /\ d # c
    BY <1>3 DEF P!Holds
  <2>2. \A d \in Clients : req'[d].stage \in {"submit", "read"} => d # c /\ req'[d] = req[d]
    BY <1>3
  <2>3. \A d \in Clients : req'[d].stage \in {"submit", "read"} =>
           req'[d].job \notin P!ToSet(queued') /\ req'[d].job \notin DOMAIN working'
    BY <1>1, <1>4, <1>6, <1>8, <2>2, MediaParts DEF P!JobsOwned, P!Running
  <2> QED
    BY <1>1, <2>1, <2>3, MediaParts DEF P!JobsOwned, P!Running
<1>16. P!ToldIsOver'
  <2>1. \A d \in Clients : P!Is(d, "submit")' => P!Is(d, "submit") /\ req'[d].job = req[d].job
    BY <1>3 DEF P!Is
  <2> QED
    BY <1>1, <1>10, <1>11, <2>1, MediaParts DEF P!ToldIsOver
<1>17. P!DoneIsMarked'
  BY <1>1, MediaParts DEF P!DoneIsMarked
<1>18. P!FuturesKept'
  <2>1. \A d \in Clients : P!Is(d, "keep") => P!Is(d, "keep")' /\ req'[d].job = req[d].job
    BY <1>1, <1>3 DEF P!Is
  <2>2. /\ \A j \in futures : P!Running(j)
        /\ \A j \in DOMAIN jobs :
              P!Running(j) /\ (\A d \in Clients : P!Is(d, "keep") => req[d].job # j) => j \in futures
    BY MediaParts DEF P!FuturesKept
  <2>3. \A j \in futures' : P!Running(j)'
    BY <1>6, <1>9, <1>10, <1>11, <2>2
  <2>4. ASSUME NEW j \in DOMAIN jobs, P!Running(j)', \A d \in Clients : P!Is(d, "keep")' => req'[d].job # j
        PROVE  j \in futures'
    <3>1. P!Running(j) /\ \A d \in Clients : P!Is(d, "keep") => req[d].job # j
      BY <1>10, <1>11, <2>1, <2>4
    <3>2. j \in futures
      BY <2>2, <3>1
    <3>3. j = n => n \in DOMAIN working
      BY <1>11, <2>4
    <3> QED
      BY <1>6, <3>2, <3>3
  <2> QED
    BY <1>1, <2>3, <2>4 DEF P!FuturesKept
<1> QED
  BY <1>12, <1>13, <1>14, <1>15, <1>16, <1>17, <1>18 DEF P!MediaInv

(* A node reports a job that is over, and that it alone waited for.          *)
LEMMA ReadKeeps ==
    ASSUME P!MediaInv, NEW c \in Clients, P!ReadJob(c)
    PROVE  P!MediaInv'
<1>1. /\ UNCHANGED <<assets, jobs, files, queued, working, futures, asked, mode>>
      /\ P!Is(c, "read") /\ P!End(c)
  BY DEF P!ReadJob, P!pool
<1>2. PICK n \in DOMAIN jobs : n = req[c].job
  BY <1>1, MediaParts DEF P!JobsOwned, P!Holds, P!Is
<1>3. /\ req' \in [Clients -> {P!Idle} \cup P!Asked] /\ req'[c].stage = "idle"
      /\ \A d \in Clients \ {c} : req'[d] = req[d]
  BY <1>1, MediaParts, Ends
<1>4. \A d \in Clients :
        /\ P!Holds(d)' => P!Holds(d) /\ req'[d].job = req[d].job
        /\ P!Is(d, "submit")' => P!Is(d, "submit") /\ req'[d].job = req[d].job /\ d # c
        /\ P!Is(d, "read")' => P!Is(d, "read")
        /\ P!Is(d, "keep") => P!Is(d, "keep")' /\ req'[d].job = req[d].job
  BY <1>1, <1>3 DEF P!Holds, P!Is
<1>5. \A j : P!Running(j)' <=> P!Running(j)
  BY <1>1 DEF P!Running
<1>6. told' \subseteq told \cup {n} /\ (n \in told' => n \in told \/ jobs[n].status # "FAILED")
  BY <1>2 DEF P!ReadJob, P!Reported
<1>7. P!ToldIsOver'
  <2>1. ~P!Running(n) /\ \A d \in Clients : d # c /\ P!Is(d, "submit") => req[d].job # n
    BY <1>1, <1>2, MediaParts DEF P!JobsOwned, P!Holds, P!Is
  <2>2. ASSUME NEW j \in told'
        PROVE  /\ ~P!Running(j) /\ jobs[j].status # "FAILED"
               /\ \A d \in Clients : d # c /\ P!Is(d, "submit") => req[d].job # j
    BY <1>6, <2>1, <2>2, MediaParts DEF P!ToldIsOver
  <2> QED
    BY <1>1, <1>4, <1>5, <2>2 DEF P!ToldIsOver
<1>8. P!FuturesKept'
  BY <1>1, <1>4, MediaParts, StillKept
<1>9. told' \subseteq DOMAIN jobs /\ files' \subseteq Nat /\ asked' \in Nat /\ mode' \in {"up", "closing", "down"}
  BY <1>1, <1>6, MediaParts
<1> QED
  BY <1>1, <1>3, <1>4, <1>7, <1>8, <1>9, SameAssets, QuietKeeps

(* A thread takes the first job of the queue: it stays in the pool.          *)
LEMMA PoolTakes ==
    ASSUME EngineAndMediaAssumption, P!MediaInv, P!Take
    PROVE  P!MediaInv'
<1>1. /\ UNCHANGED <<assets, jobs, files, futures, req, told, asked, mode>>
      /\ queued # <<>> /\ P!Cardinality(DOMAIN working) < MaxWorkers
  BY DEF P!Take, P!Same
<1>2. PICK line \in Seq(DOMAIN jobs) : line = queued
  BY MediaParts
<1>3. PICK n \in DOMAIN jobs : n = line[1] /\ n = Head(line)
  BY <1>1, <1>2
<1>4. PICK entry : entry = [step |-> "start", read |-> {}]
  OBVIOUS
<1>5. entry \in P!Work /\ entry.step = "start"
  BY <1>4 DEF P!Work
<1>6. working' = P!Insert(working, n, entry) /\ queued' = Tail(line)
  BY <1>2, <1>3, <1>4 DEF P!Take
<1>7. n \in Nat
  BY MediaParts DEF P!Table
<1>8. /\ P!Table(working', P!Work) /\ DOMAIN working' = DOMAIN working \cup {n}
      /\ working'[n] = entry /\ \A k \in DOMAIN working : k # n => working'[k] = working[k]
  BY <1>5, <1>6, <1>7, MediaParts, WorkInserted
<1>9. /\ \A i, k \in 1..Len(line) : line[i] = line[k] => i = k
      /\ \A i \in 1..Len(line) : line[i] \notin DOMAIN working
  BY <1>2, MediaParts DEF P!QueuedOnce
<1>10. PICK rest : rest = Tail(line)
  OBVIOUS
<1>11. /\ Len(line) \in Nat /\ Len(line) > 0 /\ rest \in Seq(DOMAIN jobs) /\ Len(rest) = Len(line) - 1
       /\ \A i \in 1..Len(rest) : rest[i] = line[i + 1]
  BY <1>1, <1>2, <1>10
<1>12. \A i \in 1..Len(rest) : rest[i] # n /\ rest[i] \notin DOMAIN working
  <2>1. \A i \in 1..Len(rest) : i + 1 \in 1..Len(line) /\ i + 1 # 1 /\ 1 \in 1..Len(line)
    BY <1>11
  <2> QED
    BY <1>3, <1>9, <1>11, <2>1
<1>13. P!ToSet(line) = P!ToSet(rest) \cup {n}
  <2>1. \A x : x \in P!ToSet(line) <=> \E i \in 1..Len(line) : line[i] = x
    BY <1>2, InQueue
  <2>2. \A x : x \in P!ToSet(rest) <=> \E i \in 1..Len(rest) : rest[i] = x
    BY <1>11, InQueue
  <2>3. \A i \in 1..Len(line) : i = 1 \/ (i - 1 \in 1..Len(rest) /\ rest[i - 1] = line[i])
    BY <1>11
  <2>4. \A i \in 1..Len(rest) : i + 1 \in 1..Len(line) /\ 1 \in 1..Len(line)
    BY <1>11
  <2>5. 1 \in 1..Len(line)
    BY <1>11
  <2> QED
    BY <1>3, <1>11, <2>1, <2>2, <2>3, <2>4, <2>5
<1>14. \A j : P!Running(j) <=> j \in P!ToSet(line) \/ j \in DOMAIN working
  BY <1>2 DEF P!Running
<1>15. \A j : P!Running(j)' <=> j \in P!ToSet(rest) \/ j \in DOMAIN working \cup {n}
  BY <1>6, <1>8, <1>10 DEF P!Running
<1>16. \A j : P!Running(j)' <=> P!Running(j)
  BY <1>13, <1>14, <1>15
<1>17. P!Typed'
  <2>1. PICK busy : busy = DOMAIN working
    OBVIOUS
  <2>2. PICK size \in Nat : size = Cardinality(busy) /\ size < MaxWorkers
    <3>1. IsFiniteSet(busy)
      BY <2>1, MediaParts, SameCounts DEF P!Table
    <3>2. Cardinality(busy) < MaxWorkers
      BY <1>1, <2>1, SameCounts
    <3> QED
      BY <3>1, <3>2, FS_CardinalityType
  <2>3. Cardinality(busy \cup {n}) \in {size, size + 1}
    <3>1. IsFiniteSet(busy)
      BY <2>1, MediaParts, SameCounts DEF P!Table
    <3> QED
      BY <2>2, <3>1, FS_AddElement
  <2>4. P!Cardinality(DOMAIN working') <= MaxWorkers
    <3>1. P!Cardinality(DOMAIN working') = Cardinality(busy \cup {n})
      BY <1>8, <2>1, SameCounts
    <3> QED
      BY <2>2, <2>3, <3>1, Asking
  <2>5. queued' \in Seq(DOMAIN jobs)
    BY <1>6, <1>10, <1>11
  <2>6. DOMAIN working' \subseteq DOMAIN jobs
    BY <1>3, <1>8, MediaParts
  <2> QED
    BY <1>1, <1>8, <2>4, <2>5, <2>6, MediaParts DEF P!Typed, P!Table
<1>18. \A j \in DOMAIN jobs' : P!Linked(j)'
  BY <1>1, MediaParts DEF P!Linked
<1>19. P!QueuedOnce'
  <2>1. \A i, k \in 1..Len(rest) : rest[i] = rest[k] => i = k
    <3>1. \A i \in 1..Len(rest) : i + 1 \in 1..Len(line) /\ i \in Nat
      BY <1>11
    <3> QED
      BY <1>9, <1>11, <3>1
  <2> QED
    BY <1>6, <1>8, <1>10, <1>12, <2>1 DEF P!QueuedOnce
<1>20. P!JobsOwned'
  BY <1>1, <1>16, MediaParts DEF P!JobsOwned, P!Holds
<1>21. P!ToldIsOver'
  BY <1>1, <1>16, MediaParts DEF P!ToldIsOver, P!Is
<1>22. P!DoneIsMarked'
  BY <1>1, <1>5, <1>8, MediaParts DEF P!DoneIsMarked
<1>23. P!FuturesKept'
  BY <1>1, <1>16, MediaParts DEF P!FuturesKept, P!Is
<1> QED
  BY <1>17, <1>18, <1>19, <1>20, <1>21, <1>22, <1>23 DEF P!MediaInv

(* A thread does the next step of its job, or leaves it.                     *)
LEMMA ThreadKeeps ==
    ASSUME EngineAndMediaAssumption, P!MediaInv, NEW j \in DOMAIN working, AssetsStay,
           UNCHANGED <<files, queued, told, asked, mode>>,
           NEW entry \in P!Job_row, jobs' = [jobs EXCEPT ![j] = entry],
           entry.asset = jobs[j].asset,
           entry.status = "PENDING" <=> entry.progress = 0,
           entry.status = "RUNNING" <=> entry.progress \in {10, 65},
           entry.status = "COMPLETED" => assets'[entry.asset].processed,
           P!Table(working', P!Work),
           \/ DOMAIN working' = DOMAIN working /\ futures' = futures
           \/ DOMAIN working' = DOMAIN working \ {j} /\ futures' = futures \ {j},
           \A k \in DOMAIN working' : working'[k].step = "done" => assets'[jobs[k].asset].processed,
           req' \in [Clients -> {P!Idle} \cup P!Asked],
           \A c \in Clients : req'[c] = req[c] \/ (req'[c].stage = "idle" /\ req[c].stage = "wait")
    PROVE  P!MediaInv'
<1>1. j \in DOMAIN jobs
  BY MediaParts
<1>2. /\ P!Table(jobs', P!Job_row) /\ DOMAIN jobs' = DOMAIN jobs
      /\ jobs'[j] = entry /\ \A k \in DOMAIN jobs : k # j => jobs'[k] = jobs[k]
  BY <1>1, MediaParts, JobChanged
<1>3. \A k \in DOMAIN jobs : jobs'[k].asset = jobs[k].asset
  BY <1>2
<1>4. DOMAIN working' \subseteq DOMAIN working
  OBVIOUS
<1>5. P!Running(j)
  BY DEF P!Running
<1>6. j \notin told
  BY <1>5, MediaParts DEF P!ToldIsOver
<1>7. j \notin P!ToSet(queued)
  BY MediaParts, InQueue DEF P!QueuedOnce
<1>8. \A k : P!Running(k)' => P!Running(k)
  BY <1>4 DEF P!Running
<1>9. P!Typed'
  <2>1. Cardinality(DOMAIN working') <= Cardinality(DOMAIN working)
        /\ Cardinality(DOMAIN working) \in Nat /\ Cardinality(DOMAIN working') \in Nat
    BY <1>4, MediaParts, SameCounts, FS_Subset, FS_CardinalityType DEF P!Table
  <2>2. P!Cardinality(DOMAIN working) <= MaxWorkers
    BY MediaParts DEF P!Typed
  <2>3. P!Cardinality(DOMAIN working') <= MaxWorkers
    BY <2>1, <2>2, SameCounts, Asking
  <2>4. P!Table(assets', P!Asset_row)
    BY DEF AssetsStay
  <2> QED
    BY <1>2, <1>4, <2>3, <2>4, MediaParts DEF P!Typed, P!Table
<1>10. ASSUME NEW k \in DOMAIN jobs' PROVE P!Linked(k)'
  <2>1. /\ jobs[k].asset \in DOMAIN assets'
        /\ assets[jobs[k].asset].processed => assets'[jobs[k].asset].processed
    BY <1>2, <1>10 DEF AssetsStay
  <2>2. CASE k = j
    <3>1. jobs'[k] = entry /\ entry.asset \in DOMAIN assets'
      BY <1>2, <2>1, <2>2
    <3> QED
      BY <3>1 DEF P!Linked
  <2>3. CASE k # j
    <3>1. jobs'[k] = jobs[k] /\ P!Linked(k)
      BY <1>2, <1>10, <2>3, MediaParts
    <3> QED
      BY <2>1, <3>1 DEF P!Linked
  <2> QED
    BY <2>2, <2>3
<1>11. P!QueuedOnce'
  BY <1>4, MediaParts DEF P!QueuedOnce
<1>12. P!JobsOwned'
  <2>1. \A c \in Clients : P!Holds(c)' => P!Holds(c) /\ req'[c] = req[c]
    BY DEF P!Holds
  <2>2. \A c \in Clients : req'[c].stage \in {"submit", "read"} => req'[c] = req[c]
    OBVIOUS
  <2>3. \A c \in Clients : req'[c].stage \in {"submit", "read"} =>
           req'[c].job \notin P!ToSet(queued') /\ req'[c].job \notin DOMAIN working'
    BY <1>4, <2>2, MediaParts DEF P!JobsOwned, P!Running
  <2> QED
    BY <1>2, <2>1, <2>3, MediaParts DEF P!JobsOwned, P!Running
<1>13. P!ToldIsOver'
  <2>1. \A k \in told : jobs'[k] = jobs[k]
    BY <1>2, <1>6, MediaParts
  <2>2. \A c \in Clients : P!Is(c, "submit")' => P!Is(c, "submit") /\ req'[c].job = req[c].job
    BY DEF P!Is
  <2> QED
    BY <1>8, <2>1, <2>2, MediaParts DEF P!ToldIsOver
<1>14. P!DoneIsMarked'
  <2>1. \A k \in DOMAIN working' : jobs'[k].asset = jobs[k].asset
    BY <1>3, <1>4, MediaParts
  <2> QED
    BY <2>1 DEF P!DoneIsMarked
<1>15. P!FuturesKept'
  <2>1. \A c \in Clients : P!Is(c, "keep") => P!Is(c, "keep")' /\ req'[c].job = req[c].job
    BY DEF P!Is
  <2>2. CASE DOMAIN working' = DOMAIN working /\ futures' = futures
    <3>1. \A k : P!Running(k)' <=> P!Running(k)
      BY <2>2 DEF P!Running
    <3> QED
      BY <1>2, <2>1, <2>2, <3>1, MediaParts DEF P!FuturesKept
  <2>3. CASE DOMAIN working' = DOMAIN working \ {j} /\ futures' = futures \ {j}
    <3>1. \A k : P!Running(k)' <=> P!Running(k) /\ k # j
      BY <1>7, <2>3 DEF P!Running
    <3> QED
      BY <1>2, <2>1, <2>3, <3>1, MediaParts DEF P!FuturesKept
  <2> QED
    BY <2>2, <2>3
<1> QED
  BY <1>9, <1>10, <1>11, <1>12, <1>13, <1>14, <1>15 DEF P!MediaInv

(* What the steps of a thread do to the rows and to the pool.                *)
LEMMA Updates ==
    ASSUME P!MediaInv, NEW j \in DOMAIN working,
           NEW reached \in {"RUNNING", "COMPLETED", "FAILED"}, NEW progress \in Nat,
           P!_update_job(j, reached, progress)
    PROVE  \E entry \in P!Job_row : /\ jobs' = [jobs EXCEPT ![j] = entry]
                                    /\ entry.asset = jobs[j].asset
                                    /\ entry.status = reached /\ entry.progress = progress
<1>1. PICK old \in P!Job_row : old = jobs[j]
  BY MediaParts DEF P!Table
<1>2. PICK entry : entry = [old EXCEPT !.status = reached, !.progress = progress]
  OBVIOUS
<1>3. entry \in P!Job_row /\ entry.asset = old.asset /\ entry.status = reached /\ entry.progress = progress
  BY <1>1, <1>2 DEF P!Job_row
<1>4. jobs' = [jobs EXCEPT ![j] = entry]
  BY <1>1, <1>2, MediaParts DEF P!_update_job, P!Table
<1> QED
  BY <1>1, <1>3, <1>4

LEMMA SameJob ==
    ASSUME P!MediaInv, NEW j \in DOMAIN working, jobs' = jobs, AssetsStay
    PROVE  \E entry \in P!Job_row :
              /\ jobs' = [jobs EXCEPT ![j] = entry]
              /\ entry.asset = jobs[j].asset
              /\ entry.status = "PENDING" <=> entry.progress = 0
              /\ entry.status = "RUNNING" <=> entry.progress \in {10, 65}
              /\ entry.status = "COMPLETED" => assets'[entry.asset].processed
<1>1. PICK old \in P!Job_row : old = jobs[j]
  BY MediaParts DEF P!Table
<1>2. j \in DOMAIN jobs /\ P!Linked(j)
  BY MediaParts
<1>3. jobs' = [jobs EXCEPT ![j] = old]
  BY <1>1, <1>2, MediaParts DEF P!Table
<1>4. /\ old.status = "PENDING" <=> old.progress = 0
      /\ old.status = "RUNNING" <=> old.progress \in {10, 65}
      /\ old.status = "COMPLETED" => assets'[old.asset].processed
  BY <1>1, <1>2 DEF P!Linked, AssetsStay
<1> QED
  BY <1>1, <1>3, <1>4

LEMMA Advances ==
    ASSUME P!MediaInv, NEW j \in DOMAIN working,
           NEW step \in {"poster", "asset", "done"}, P!Advance(j, step)
    PROVE  /\ P!Table(working', P!Work) /\ DOMAIN working' = DOMAIN working
           /\ working'[j].step = step
           /\ \A k \in DOMAIN working : k # j => working'[k] = working[k]
<1>1. PICK old \in P!Work : old = working[j]
  BY MediaParts DEF P!Table
<1>2. PICK entry : entry = [old EXCEPT !.step = step]
  OBVIOUS
<1>3. entry \in P!Work /\ entry.step = step
  BY <1>1, <1>2 DEF P!Work
<1>4. working' = [working EXCEPT ![j] = entry]
  BY <1>1, <1>2, MediaParts DEF P!Advance, P!Table
<1>5. P!Table(working, P!Work)
  BY MediaParts
<1>6. /\ P!Table(working', P!Work) /\ DOMAIN working' = DOMAIN working
      /\ working'[j] = entry /\ \A k \in DOMAIN working : k # j => working'[k] = working[k]
  BY <1>3, <1>4, <1>5, WorkChanged
<1> QED
  BY <1>3, <1>6

LEMMA Leaves ==
    ASSUME P!MediaInv, NEW j \in DOMAIN working, P!Leave(j)
    PROVE  /\ P!Table(working', P!Work) /\ DOMAIN working' = DOMAIN working \ {j}
           /\ \A k \in DOMAIN working' : k # j /\ working'[k] = working[k]
           /\ futures' = futures \ {j}
<1>1. P!Table(working, P!Work) /\ working' = P!Without(working, j) /\ futures' = futures \ {j}
  BY MediaParts DEF P!Leave
<1>2. /\ P!Table(working', P!Work) /\ DOMAIN working' = DOMAIN working \ {j}
      /\ \A k \in DOMAIN working : k # j => working'[k] = working[k]
  BY <1>1, WorkDeleted
<1> QED
  BY <1>1, <1>2

(* Jobs that are done have their assets marked, also after the step.         *)
LEMMA StillMarked ==
    ASSUME P!MediaInv, NEW j, AssetsStay, DOMAIN working' \subseteq DOMAIN working,
           \A k \in DOMAIN working' : k # j => working'[k] = working[k],
           j \in DOMAIN working' /\ working'[j].step = "done" => assets'[jobs[j].asset].processed
    PROVE  \A k \in DOMAIN working' : working'[k].step = "done" => assets'[jobs[k].asset].processed
<1>1. ASSUME NEW k \in DOMAIN working', working'[k].step = "done", k # j
      PROVE  assets'[jobs[k].asset].processed
  <2>1. k \in DOMAIN working /\ k \in DOMAIN jobs /\ working[k].step = "done"
    BY <1>1, MediaParts
  <2>2. assets[jobs[k].asset].processed
    BY <2>1, MediaParts DEF P!DoneIsMarked
  <2> QED
    BY <2>1, <2>2 DEF AssetsStay
<1> QED
  BY <1>1

LEMMA StartKeeps ==
    ASSUME EngineAndMediaAssumption, P!MediaInv, NEW j, P!JobStart(j)
    PROVE  P!MediaInv'
<1>1. /\ UNCHANGED <<assets, files, queued, futures, req, told, asked, mode>>
      /\ j \in DOMAIN working /\ P!_update_job(j, "RUNNING", 10)
  BY DEF P!JobStart, P!Same, P!At
<1>2. PICK entry \in P!Job_row : /\ jobs' = [jobs EXCEPT ![j] = entry]
                                 /\ entry.asset = jobs[j].asset
                                 /\ entry.status = "RUNNING" /\ entry.progress = 10
  BY <1>1, Updates
<1>3. j \in DOMAIN jobs /\ P!Linked(j)
  BY <1>1, MediaParts
<1>4. assets[jobs[j].asset].metadata \in SUBSET {"client", "result"}
  BY <1>3, MediaParts DEF P!Linked, P!Table, P!Asset_row
<1>5. PICK new : new = [step |-> "metadata", read |-> assets[jobs[j].asset].metadata]
  OBVIOUS
<1>6. new \in P!Work /\ new.step = "metadata"
  BY <1>4, <1>5 DEF P!Work
<1>7. working' = [working EXCEPT ![j] = new] /\ P!Table(working, P!Work)
  BY <1>5, MediaParts DEF P!JobStart, P!Asset
<1>8. /\ P!Table(working', P!Work) /\ DOMAIN working' = DOMAIN working
      /\ working'[j] = new /\ \A k \in DOMAIN working : k # j => working'[k] = working[k]
  BY <1>1, <1>6, <1>7, WorkChanged
<1>9. AssetsStay
  BY <1>1, SameAssets
<1>10. \A k \in DOMAIN working' : working'[k].step = "done" => assets'[jobs[k].asset].processed
  BY <1>6, <1>8, <1>9, StillMarked
<1>11. req' \in [Clients -> {P!Idle} \cup P!Asked]
  BY <1>1, MediaParts
<1>12. /\ entry.status = "PENDING" <=> entry.progress = 0
       /\ entry.status = "RUNNING" <=> entry.progress \in {10, 65}
       /\ entry.status = "COMPLETED" => assets'[entry.asset].processed
  BY <1>2
<1> QED
  BY <1>1, <1>2, <1>8, <1>9, <1>10, <1>11, <1>12, ThreadKeeps

LEMMA MetadataKeeps ==
    ASSUME EngineAndMediaAssumption, P!MediaInv, NEW j, P!JobMetadata(j) \/ P!JobPoster(j)
    PROVE  P!MediaInv'
<1>1. /\ UNCHANGED <<assets, files, queued, futures, req, told, asked, mode>>
      /\ j \in DOMAIN working
  BY DEF P!JobMetadata, P!JobPoster, P!Same, P!At
<1>2. AssetsStay
  BY <1>1, SameAssets
<1>3. PICK step \in {"poster", "asset"} : P!Advance(j, step)
  BY DEF P!JobMetadata, P!JobPoster
<1>4. /\ P!Table(working', P!Work) /\ DOMAIN working' = DOMAIN working
      /\ working'[j].step = step
      /\ \A k \in DOMAIN working : k # j => working'[k] = working[k]
  BY <1>1, <1>3, Advances
<1>5. \A k \in DOMAIN working' : working'[k].step = "done" => assets'[jobs[k].asset].processed
  BY <1>2, <1>3, <1>4, StillMarked
<1>6. req' \in [Clients -> {P!Idle} \cup P!Asked]
  BY <1>1, MediaParts
<1>7. CASE jobs' = jobs
  <2>1. PICK entry \in P!Job_row :
              /\ jobs' = [jobs EXCEPT ![j] = entry]
              /\ entry.asset = jobs[j].asset
              /\ entry.status = "PENDING" <=> entry.progress = 0
              /\ entry.status = "RUNNING" <=> entry.progress \in {10, 65}
              /\ entry.status = "COMPLETED" => assets'[entry.asset].processed
    BY <1>1, <1>2, <1>7, SameJob
  <2> QED
    BY <1>1, <1>2, <1>4, <1>5, <1>6, <2>1, ThreadKeeps
<1>8. CASE P!_update_job(j, "RUNNING", 65)
  <2>1. PICK entry \in P!Job_row : /\ jobs' = [jobs EXCEPT ![j] = entry]
                                   /\ entry.asset = jobs[j].asset
                                   /\ entry.status = "RUNNING" /\ entry.progress = 65
    BY <1>1, <1>8, Updates
  <2>2. /\ entry.status = "PENDING" <=> entry.progress = 0
        /\ entry.status = "RUNNING" <=> entry.progress \in {10, 65}
        /\ entry.status = "COMPLETED" => assets'[entry.asset].processed
    BY <2>1
  <2> QED
    BY <1>1, <1>2, <1>4, <1>5, <1>6, <2>1, <2>2, ThreadKeeps
<1> QED
  BY <1>7, <1>8 DEF P!JobMetadata, P!JobPoster

LEMMA MarkKeeps ==
    ASSUME EngineAndMediaAssumption, P!MediaInv, NEW j, P!JobAsset(j)
    PROVE  P!MediaInv'
<1>1. /\ UNCHANGED <<jobs, files, queued, futures, req, told, asked, mode>>
      /\ j \in DOMAIN working /\ P!Advance(j, "done")
  BY DEF P!JobAsset, P!Same, P!At
<1>2. PICK a : a = jobs[j].asset /\ a \in DOMAIN assets
  BY <1>1, MediaParts DEF P!Linked
<1>3. PICK old \in P!Asset_row : old = assets[a]
  BY <1>2, MediaParts DEF P!Table
<1>4. PICK w \in P!Work : w = working[j]
  BY <1>1, MediaParts DEF P!Table
<1>5. PICK new : new = [old EXCEPT !.metadata = w.read \cup {"result"}, !.processed = TRUE]
  OBVIOUS
<1>6. new \in P!Asset_row /\ new.processed = TRUE
  BY <1>3, <1>4, <1>5 DEF P!Asset_row, P!Work
<1>7. assets' = [assets EXCEPT ![a] = new] /\ P!Table(assets, P!Asset_row)
  BY <1>2, <1>3, <1>4, <1>5, MediaParts DEF P!JobAsset, P!Marked, P!Asset, P!Table
<1>8. /\ P!Table(assets', P!Asset_row) /\ DOMAIN assets' = DOMAIN assets /\ assets'[a] = new
      /\ \A k \in DOMAIN assets : k # a => assets'[k] = assets[k]
  BY <1>2, <1>6, <1>7, Changed
<1>9. AssetsStay
  BY <1>6, <1>8, MediaParts DEF AssetsStay, P!Linked
<1>10. /\ P!Table(working', P!Work) /\ DOMAIN working' = DOMAIN working
       /\ working'[j].step = "done"
       /\ \A k \in DOMAIN working : k # j => working'[k] = working[k]
  BY <1>1, Advances
<1>11. \A k \in DOMAIN working' : working'[k].step = "done" => assets'[jobs[k].asset].processed
  BY <1>2, <1>6, <1>8, <1>9, <1>10, StillMarked
<1>12. req' \in [Clients -> {P!Idle} \cup P!Asked]
  BY <1>1, MediaParts
<1>13. PICK entry \in P!Job_row :
              /\ jobs' = [jobs EXCEPT ![j] = entry]
              /\ entry.asset = jobs[j].asset
              /\ entry.status = "PENDING" <=> entry.progress = 0
              /\ entry.status = "RUNNING" <=> entry.progress \in {10, 65}
              /\ entry.status = "COMPLETED" => assets'[entry.asset].processed
  BY <1>1, <1>9, SameJob
<1> QED
  BY <1>1, <1>9, <1>10, <1>11, <1>12, <1>13, ThreadKeeps

LEMMA LeaveKeeps ==
    ASSUME EngineAndMediaAssumption, P!MediaInv, NEW j,
           P!JobDone(j) \/ P!JobFails(j) \/ P!JobBreaks(j)
    PROVE  P!MediaInv'
<1>1. /\ UNCHANGED <<assets, files, queued, told, asked, mode>>
      /\ j \in DOMAIN working /\ P!Leave(j)
  BY DEF P!JobDone, P!JobFails, P!JobBreaks, P!Same, P!At
<1>2. AssetsStay
  BY <1>1, SameAssets
<1>3. /\ P!Table(working', P!Work) /\ DOMAIN working' = DOMAIN working \ {j}
      /\ \A k \in DOMAIN working' : k # j /\ working'[k] = working[k]
      /\ futures' = futures \ {j}
  BY <1>1, Leaves
<1>4. \A k \in DOMAIN working' : working'[k].step = "done" => assets'[jobs[k].asset].processed
  BY <1>2, <1>3, StillMarked
<1>5. /\ req' \in [Clients -> {P!Idle} \cup P!Asked]
      /\ \A c \in Clients : req'[c] = req[c] \/ (req'[c].stage = "idle" /\ req[c].stage = "wait")
  <2>1. P!Idle.stage = "idle" /\ req \in [Clients -> {P!Idle} \cup P!Asked]
    BY MediaParts DEF P!Idle
  <2>2. CASE req' = req
    BY <2>1, <2>2
  <2>3. CASE P!JobBreaks(j)
    BY <2>1, <2>3 DEF P!JobBreaks, P!Is
  <2> QED
    BY <2>2, <2>3 DEF P!JobDone, P!JobFails
<1>6. CASE P!JobBreaks(j)
  <2>1. PICK entry \in P!Job_row :
              /\ jobs' = [jobs EXCEPT ![j] = entry]
              /\ entry.asset = jobs[j].asset
              /\ entry.status = "PENDING" <=> entry.progress = 0
              /\ entry.status = "RUNNING" <=> entry.progress \in {10, 65}
              /\ entry.status = "COMPLETED" => assets'[entry.asset].processed
    BY <1>1, <1>2, <1>6, SameJob DEF P!JobBreaks
  <2> QED
    BY <1>1, <1>2, <1>3, <1>4, <1>5, <2>1, ThreadKeeps
<1>7. CASE P!JobFails(j)
  <2>1. PICK entry \in P!Job_row : /\ jobs' = [jobs EXCEPT ![j] = entry]
                                   /\ entry.asset = jobs[j].asset
                                   /\ entry.status = "FAILED" /\ entry.progress = 100
    BY <1>1, <1>7, Updates DEF P!JobFails
  <2>2. /\ entry.status = "PENDING" <=> entry.progress = 0
        /\ entry.status = "RUNNING" <=> entry.progress \in {10, 65}
        /\ entry.status = "COMPLETED" => assets'[entry.asset].processed
    BY <2>1
  <2> QED
    BY <1>1, <1>2, <1>3, <1>4, <1>5, <2>1, <2>2, ThreadKeeps
<1>8. CASE P!JobDone(j)
  <2>1. PICK entry \in P!Job_row : /\ jobs' = [jobs EXCEPT ![j] = entry]
                                   /\ entry.asset = jobs[j].asset
                                   /\ entry.status = "COMPLETED" /\ entry.progress = 100
    BY <1>1, <1>8, Updates DEF P!JobDone
  <2>2. assets'[entry.asset].processed
    BY <1>1, <1>8, <2>1, MediaParts DEF P!JobDone, P!At, P!DoneIsMarked
  <2>3. /\ entry.status = "PENDING" <=> entry.progress = 0
        /\ entry.status = "RUNNING" <=> entry.progress \in {10, 65}
        /\ entry.status = "COMPLETED" => assets'[entry.asset].processed
    BY <2>1, <2>2
  <2> QED
    BY <1>1, <1>2, <1>3, <1>4, <1>5, <2>1, <2>3, ThreadKeeps
<1> QED
  BY <1>6, <1>7, <1>8

(* The application ends, or dies.                                            *)
LEMMA ShutdownKeeps ==
    ASSUME P!MediaInv, P!ShutdownBegins \/ P!ShutdownEnds
    PROVE  P!MediaInv'
<1>1. /\ UNCHANGED <<assets, jobs, files, queued, working, req, told, asked>>
      /\ mode' \in {"up", "closing", "down"}
  BY DEF P!ShutdownBegins, P!ShutdownEnds, P!pool
<1>2. \A j : P!Running(j)' <=> P!Running(j)
  BY <1>1 DEF P!Running
<1>3. P!FuturesKept'
  <2>1. CASE P!ShutdownBegins
    <3>1. futures' = futures
      BY <2>1 DEF P!ShutdownBegins, P!pool
    <3> QED
      BY <1>1, <3>1, MediaParts, StillKept DEF P!Is
  <2>2. CASE P!ShutdownEnds
    <3>1. futures' = {} /\ queued = <<>> /\ DOMAIN working = {}
      BY <2>2 DEF P!ShutdownEnds
    <3>2. P!ToSet(queued) = {}
      BY <3>1 DEF P!ToSet
    <3>3. \A j : ~P!Running(j)
      BY <3>1, <3>2 DEF P!Running
    <3> QED
      BY <1>2, <3>1, <3>3 DEF P!FuturesKept
  <2> QED
    BY <2>1, <2>2
<1>4. P!ToldIsOver'
  BY <1>1, MediaParts, StillOver DEF P!Is
<1>5. \A c \in Clients :
        /\ P!Holds(c)' => P!Holds(c) /\ req'[c].job = req[c].job
        /\ P!Is(c, "submit")' => P!Is(c, "submit")
        /\ P!Is(c, "read")' => P!Is(c, "read") \/ ~P!Running(req[c].job)
  BY <1>1 DEF P!Holds, P!Is
<1>6. /\ told' \subseteq DOMAIN jobs /\ files' \subseteq Nat /\ asked' \in Nat
      /\ req' \in [Clients -> {P!Idle} \cup P!Asked]
  BY <1>1, MediaParts
<1> QED
  BY <1>1, <1>3, <1>4, <1>5, <1>6, SameAssets, QuietKeeps

LEMMA CrashKeeps ==
    ASSUME EngineAndMediaAssumption, P!MediaInv, P!Crash
    PROVE  P!MediaInv'
<1>1. /\ UNCHANGED <<assets, jobs, files, told, asked, mode>>
      /\ queued' = <<>> /\ futures' = {} /\ DOMAIN working' = {}
      /\ \A c \in Clients : req'[c] = P!Idle
      /\ req' \in [Clients -> {P!Idle} \cup P!Asked]
  BY DEF P!Crash, P!Restrict
<1>2. P!Idle.stage = "idle"
  BY DEF P!Idle
<1>3. P!ToSet(queued') = {} /\ Len(queued') = 0
  BY <1>1, Len(<<>>) = 0 DEF P!ToSet
<1>4. \A j : ~P!Running(j)'
  BY <1>1, <1>3 DEF P!Running
<1>5. P!Typed'
  <2>1. P!Table(working', P!Work)
    <3>1. P!IsFiniteSet(DOMAIN working')
      BY <1>1, SameCounts, FS_EmptySet
    <3>2. working' \in [DOMAIN working' -> P!Work]
      BY <1>1 DEF P!Crash, P!Restrict
    <3> QED
      BY <1>1, <3>1, <3>2 DEF P!Table
  <2>2. P!Cardinality(DOMAIN working') <= MaxWorkers
    BY <1>1, SameCounts, FS_EmptySet, Asking
  <2>3. queued' \in Seq(DOMAIN jobs)
    BY <1>1
  <2> QED
    BY <1>1, <2>1, <2>2, <2>3, MediaParts DEF P!Typed, P!Table
<1>6. \A j \in DOMAIN jobs' : P!Linked(j)'
  BY <1>1, MediaParts DEF P!Linked
<1>7. P!QueuedOnce'
  BY <1>3 DEF P!QueuedOnce
<1>8. P!JobsOwned'
  BY <1>1, <1>2 DEF P!JobsOwned, P!Holds
<1>9. P!ToldIsOver'
  BY <1>1, <1>2, <1>4, MediaParts DEF P!ToldIsOver, P!Is
<1>10. P!DoneIsMarked'
  BY <1>1 DEF P!DoneIsMarked
<1>11. P!FuturesKept'
  BY <1>1, <1>4 DEF P!FuturesKept
<1> QED
  BY <1>5, <1>6, <1>7, <1>8, <1>9, <1>10, <1>11 DEF P!MediaInv

LEMMA MediaInit ==
    ASSUME EngineAndMediaAssumption, P!Init
    PROVE  P!MediaInv
<1>1. P!Table(assets, P!Asset_row)
  <2>1. P!IsFiniteSet({1})
    BY SameCounts, FS_Singleton
  <2>2. assets = [a \in {1} |-> [file |-> 1, processed |-> FALSE, metadata |-> {}]]
    BY DEF P!Init
  <2>3. [file |-> 1, processed |-> FALSE, metadata |-> {}] \in P!Asset_row
    BY DEF P!Asset_row
  <2>4. DOMAIN assets = {1} /\ \A k \in {1} : assets[k] \in P!Asset_row
    BY <2>2, <2>3
  <2>5. assets \in [{1} -> P!Asset_row]
    BY <2>2, <2>3
  <2> QED
    BY <2>1, <2>4, <2>5 DEF P!Table
<1>2. P!Table(jobs, P!Job_row) /\ P!Table(working, P!Work) /\ DOMAIN jobs = {} /\ DOMAIN working = {}
  BY SameCounts, FS_EmptySet DEF P!Init, P!Table
<1>3. P!Cardinality(DOMAIN working) <= MaxWorkers
  BY <1>2, SameCounts, FS_EmptySet, Asking
<1>4. /\ queued = <<>> /\ futures = {} /\ told = {} /\ files = {1} /\ asked = 0 /\ mode = "up"
      /\ req = [c \in Clients |-> P!Idle]
  BY DEF P!Init
<1>5. P!Typed
  <2>1. queued \in Seq(DOMAIN jobs)
    BY <1>4
  <2>2. req \in [Clients -> {P!Idle} \cup P!Asked]
    BY <1>4
  <2>3. told \subseteq DOMAIN jobs /\ files \subseteq Nat /\ asked \in Nat /\ mode \in {"up", "closing", "down"}
    BY <1>4
  <2> QED
    BY <1>1, <1>2, <1>3, <2>1, <2>2, <2>3 DEF P!Typed
<1>6. \A j \in DOMAIN jobs : P!Linked(j)
  BY <1>2
<1>7. P!QueuedOnce
  BY <1>4, Len(<<>>) = 0 DEF P!QueuedOnce
<1>8. \A c \in Clients : req[c].stage = "idle"
  BY <1>4 DEF P!Idle
<1>9. P!JobsOwned /\ P!ToldIsOver
  BY <1>4, <1>8 DEF P!JobsOwned, P!Holds, P!ToldIsOver
<1>10. P!DoneIsMarked
  BY <1>2 DEF P!DoneIsMarked
<1>11. P!FuturesKept
  BY <1>2, <1>4 DEF P!FuturesKept
<1> QED
  BY <1>5, <1>6, <1>7, <1>9, <1>10, <1>11 DEF P!MediaInv

(* Every step of the pipeline keeps the invariant.                           *)
LEMMA MediaStep ==
    ASSUME EngineAndMediaAssumption, P!MediaInv, P!Next
    PROVE  P!MediaInv'
<1>1. ASSUME NEW c \in Clients, P!Request(c) PROVE P!MediaInv'
  BY <1>1, AssetRequestsKeep, CarriesKeep, CreateKeeps, SubmitKeeps, KeepKeeps, TimeOutKeeps, ReadKeeps
     DEF P!Request
<1>2. ASSUME NEW c \in Clients, NEW ask \in Asks, P!Begin(c, ask) PROVE P!MediaInv'
  BY <1>2, BeginKeeps
<1>3. ASSUME NEW j, P!Thread(j) PROVE P!MediaInv'
  BY <1>3, StartKeeps, MetadataKeeps, MarkKeeps, LeaveKeeps DEF P!Thread
<1> QED
  BY <1>1, <1>2, <1>3, PoolTakes, ShutdownKeeps, CrashKeeps DEF P!Next

LEMMA MediaUntouched ==
    ASSUME P!MediaInv, UNCHANGED media
    PROVE  P!MediaInv'
<1>1. UNCHANGED <<assets, jobs, files, queued, working, futures, req, told, asked, mode>>
  BY DEF media
<1>2. \A c \in Clients :
        /\ P!Holds(c)' => P!Holds(c) /\ req'[c].job = req[c].job
        /\ P!Is(c, "submit")' => P!Is(c, "submit") /\ req'[c].job = req[c].job
        /\ P!Is(c, "keep") => P!Is(c, "keep")' /\ req'[c].job = req[c].job
        /\ P!Is(c, "read")' => P!Is(c, "read") \/ ~P!Running(req[c].job)
  BY <1>1 DEF P!Holds, P!Is
<1>3. P!ToldIsOver'
  BY <1>1, <1>2, MediaParts, StillOver
<1>4. P!FuturesKept'
  BY <1>1, <1>2, MediaParts, StillKept
<1>5. /\ told' \subseteq DOMAIN jobs /\ files' \subseteq Nat /\ asked' \in Nat
      /\ mode' \in {"up", "closing", "down"} /\ req' \in [Clients -> {P!Idle} \cup P!Asked]
  BY <1>1, MediaParts
<1> QED
  BY <1>1, <1>2, <1>3, <1>4, <1>5, SameAssets, QuietKeeps

(* The invariant is as strong as what the runs check.                        *)
LEMMA MediaSound ==
    ASSUME P!MediaInv
    PROVE  P!TypeOK /\ P!MarkedBeforeCompleted /\ P!FuturesMatch /\ P!NodeTellsTruth
<1>1. P!TypeOK
  <2>1. P!ToSet(queued) \cup DOMAIN working \subseteq DOMAIN jobs
    BY MediaParts, InQueue
  <2>2. P!Cardinality(DOMAIN working) <= MaxWorkers
    BY MediaParts DEF P!Typed
  <2> QED
    BY <2>1, <2>2, MediaParts DEF P!TypeOK, P!Linked
<1>2. P!MarkedBeforeCompleted
  BY MediaParts DEF P!MarkedBeforeCompleted, P!Linked
<1>3. P!FuturesMatch
  <2>1. \A j : P!Running(j) <=> j \in P!ToSet(queued) \cup DOMAIN working
    BY DEF P!Running
  <2>2. P!ToSet(queued) \cup DOMAIN working \subseteq DOMAIN jobs
    BY MediaParts, InQueue
  <2>3. ASSUME NEW j \in P!ToSet(queued) \cup DOMAIN working,
               j \notin {req[c].job : c \in {d \in Clients : P!Is(d, "keep")}}
        PROVE  j \in futures
    BY <2>1, <2>2, <2>3, MediaParts DEF P!FuturesKept
  <2>4. futures \subseteq P!ToSet(queued) \cup DOMAIN working
    BY <2>1, MediaParts DEF P!FuturesKept
  <2> QED
    BY <2>3, <2>4 DEF P!FuturesMatch
<1>4. P!NodeTellsTruth
  BY MediaParts DEF P!NodeTellsTruth, P!ToldIsOver
<1> QED
  BY <1>1, <1>2, <1>3, <1>4

(* What the pipeline says of a job is true, always (services/media/): every  *)
(* job has its asset, its progress agrees with its status, a completed job   *)
(* has its result stored, _futures has exactly the jobs of the pool, and no  *)
(* node takes a failed job for a completed one; for any number of clients    *)
(* and threads, through a time-out, a failed transaction, a shutdown and a   *)
(* crash.                                                                    *)
THEOREM JobsSafe == Spec => []JobsTellTruth
<1> DEFINE Inv == picked = "media" => P!MediaInv
<1>1. Init => Inv
  BY MediaInit, EngineAndMediaAssumption DEF Init
<1>2. Inv /\ [Next]_vars => Inv'
  BY MediaUntouched, MediaStep, EngineAndMediaAssumption
     DEF Next, NextRetries, NextSandbox, NextMedia, NextV1, NextLog, vars
<1>3. Inv => JobsTellTruth
  BY MediaSound DEF JobsTellTruth
<1> QED
  BY <1>1, <1>2, <1>3, PTL DEF Spec

-----------------------------------------------------------------------------
(* The first scheduler.                                                      *)

(* What is assumed of the plan that runs.                                    *)
LEMMA PlanAssumed ==
    ASSUME EngineAndMediaAssumption, plan \in Plans
    PROVE  /\ MaxRuns \in Nat /\ IsFiniteSet(V!nodes)
           /\ plan.edges \subseteq V!nodes \X V!nodes
           /\ plan.on_error \in [V!nodes -> {"fail", "continue", "skip_branch"}]
           /\ plan.max_retries \in [V!nodes -> 1..10]
BY SameCounts DEF EngineAndMediaAssumption, V!V1Assumption, V!nodes

(* What lies below a node is the least that its edges and theirs lead to.    *)
LEMMA DescendantsClosed ==
    ASSUME EngineAndMediaAssumption, plan \in Plans, NEW a
    PROVE  Closure(V!nodes, plan.edges, a, V!descendants(a))
<1>1. IsFiniteSet(V!nodes) /\ \A e \in plan.edges : e[2] \in V!nodes
  BY PlanAssumed
<1>2. V!descendants(a) = Below(plan.edges, V!Cardinality(V!nodes), a)
  BY DEF V!descendants, Below, Heads
<1>3. V!descendants(a) = Below(plan.edges, Cardinality(V!nodes), a)
  BY <1>2, SameCounts
<1> QED
  BY <1>1, <1>3, BelowIsClosed

LEMMA DescendantsBelow ==
    ASSUME EngineAndMediaAssumption, plan \in Plans, NEW a, NEW b \in V!descendants(a)
    PROVE  V!descendants(b) \subseteq V!descendants(a)
<1>1. Heads(plan.edges, {b}) \subseteq Heads(plan.edges, V!descendants(a))
  BY DEF Heads
<1> QED
  BY <1>1, DescendantsClosed DEF Closure

(* Whatever lies below a node has an edge from it or from what lies below.   *)
LEMMA DescendantsLastEdge ==
    ASSUME EngineAndMediaAssumption, plan \in Plans, NEW a \in V!nodes, NEW d \in V!descendants(a)
    PROVE  \E x \in V!dependencies(d) : x = a \/ x \in V!descendants(a)
<1> DEFINE R == {r \in V!nodes : \E x \in V!dependencies(r) : x = a \/ x \in V!descendants(a)}
<1>1. plan.edges \subseteq V!nodes \X V!nodes
  BY PlanAssumed
<1>2. ASSUME NEW e \in plan.edges, e[1] = a \/ e[1] \in V!descendants(a)
      PROVE  e[2] \in R
  <2>1. e[1] \in V!dependencies(e[2]) /\ e[2] \in V!nodes
    BY <1>1 DEF V!dependencies
  <2> QED
    BY <1>2, <2>1
<1>3. Heads(plan.edges, {a}) \subseteq R
  BY <1>2 DEF Heads
<1>4. R \subseteq V!descendants(a)
  <2> SUFFICES ASSUME NEW r \in R
               PROVE  r \in V!descendants(a)
    OBVIOUS
  <2>1. PICK e \in plan.edges : e[2] = r /\ (e[1] = a \/ e[1] \in V!descendants(a))
    BY DEF V!dependencies
  <2>2. e[2] \in Heads(plan.edges, {a}) \cup Heads(plan.edges, V!descendants(a))
    BY <2>1 DEF Heads
  <2> QED
    BY <2>1, <2>2, DescendantsClosed DEF Closure
<1>5. Heads(plan.edges, R) \subseteq R
  BY <1>2, <1>4 DEF Heads
<1>6. V!descendants(a) \subseteq R
  <2> HIDE DEF R
  <2> QED
    BY <1>3, <1>5, DescendantsClosed DEF Closure
<1> QED
  BY <1>6

(* The graph of a run stays.                                                 *)
LEMMA SameGraph ==
    ASSUME plan' = plan
    PROVE  /\ V!nodes' = V!nodes
           /\ \A n : V!descendants(n)' = V!descendants(n)
           /\ V!IsValid' <=> V!IsValid
<1>1. V!nodes' = V!nodes
  BY DEF V!nodes
<1>2. \A n : V!descendants(n)' = V!descendants(n)
  BY <1>1 DEF V!descendants
<1> QED
  BY <1>1, <1>2 DEF V!IsValid

(* Before the first run nothing has an outcome.                              *)
LEMMA V1Init == ASSUME EngineAndMediaAssumption, V!Init PROVE V!V1Inv
<1>1. \A n \in V!nodes : plan.max_retries[n] \in 1..10
  BY PlanAssumed DEF V!Init
<1>2. MaxRuns \in Nat
  BY PlanAssumed DEF V!Init
<1>3. V!running = {}
  BY DEF V!Init, V!running
<1>4. V!TypeOK
  <2>1. flight \in [V!nodes -> {"none", "queued", "ok", "error"} \cup V!Holding]
    BY DEF V!Init
  <2>2. attempt \in [V!nodes -> 0..10] /\ 0 \in 0..MaxRuns
    BY <1>2 DEF V!Init
  <2>3. row \in [V!nodes -> {"absent", "RUNNING", "SKIPPED"} \cup V!Terminal]
    BY DEF V!Init
  <2> QED
    BY <2>1, <2>2, <2>3 DEF V!Init, V!TypeOK
<1>5. V!AttemptsBounded /\ V!TasksInLoop /\ V!OneOutcome
  BY <1>1, <1>3 DEF V!Init, V!AttemptsBounded, V!TasksInLoop, V!OneOutcome, V!settled
<1>6. V!AboveIsCompleted /\ V!BelowIsSkipped /\ V!FailedAbove /\ V!LoopEnds
  BY <1>3 DEF V!Init, V!AboveIsCompleted, V!BelowIsSkipped, V!FailedAbove, V!LoopEnds
<1>7. V!RowsKept /\ V!VerdictIsWhole
  BY DEF V!Init, V!RowsKept, V!VerdictIsWhole
<1> QED
  BY <1>4, <1>5, <1>6, <1>7 DEF V!V1Inv

(* What is known of results is not touched by tasks that go on or end.       *)
LEMMA ResultsStay ==
    ASSUME V!V1Inv, plan' = plan, UNCHANGED <<completed, failed, skipped>>,
           V!running' \subseteq V!running
    PROVE  V!OneOutcome' /\ V!AboveIsCompleted' /\ V!BelowIsSkipped' /\ V!FailedAbove'
<1>1. V!nodes' = V!nodes /\ \A n : V!descendants(n)' = V!descendants(n)
  BY SameGraph
<1>2. V!OneOutcome'
  BY DEF V!V1Inv, V!OneOutcome, V!settled
<1>3. V!AboveIsCompleted'
  BY <1>1 DEF V!V1Inv, V!AboveIsCompleted
<1>4. V!BelowIsSkipped' /\ V!FailedAbove'
  BY <1>1 DEF V!V1Inv, V!BelowIsSkipped, V!FailedAbove
<1> QED
  BY <1>2, <1>3, <1>4

(* A node that has an outcome has no task.                                   *)
LEMMA SettledIsOver ==
    ASSUME V!V1Inv
    PROVE  /\ completed \subseteq V!nodes /\ failed \subseteq V!nodes /\ skipped \subseteq V!nodes
           /\ \A n \in V!settled : n \in V!nodes /\ flight[n] = "none"
<1>1. completed \subseteq V!nodes /\ failed \subseteq V!nodes /\ skipped \subseteq V!nodes
  BY DEF V!V1Inv, V!TypeOK
<1>2. V!settled \cap V!running = {} /\ V!settled = completed \cup failed \cup skipped
  BY DEF V!V1Inv, V!OneOutcome, V!settled
<1> QED
  BY <1>1, <1>2 DEF V!running

(* A step that leaves the tasks and their rows alone, and the results or     *)
(* takes them back.                                                          *)
LEMMA TasksStay ==
    ASSUME EngineAndMediaAssumption, V!V1Inv, plan' = plan, UNCHANGED <<flight, attempt, row>>,
           \/ UNCHANGED <<completed, failed, skipped>>
           \/ completed' = {} /\ failed' = {} /\ skipped' = {} /\ V!running = {}
    PROVE  /\ V!AttemptsBounded' /\ V!OneOutcome' /\ V!AboveIsCompleted' /\ V!BelowIsSkipped'
           /\ V!FailedAbove' /\ V!RowsKept' /\ V!running' = V!running
<1>1. V!nodes' = V!nodes
  BY SameGraph
<1>2. V!running' = V!running
  BY <1>1 DEF V!running
<1>3. V!AttemptsBounded'
  BY <1>1 DEF V!V1Inv, V!AttemptsBounded
<1>4. V!RowsKept'
  BY <1>1 DEF V!V1Inv, V!RowsKept
<1>5. V!OneOutcome' /\ V!AboveIsCompleted' /\ V!BelowIsSkipped' /\ V!FailedAbove'
  <2>1. CASE UNCHANGED <<completed, failed, skipped>>
    BY <1>2, <2>1, ResultsStay
  <2>2. CASE completed' = {} /\ failed' = {} /\ skipped' = {} /\ V!running = {}
    BY <1>2, <2>2 DEF V!OneOutcome, V!AboveIsCompleted, V!BelowIsSkipped, V!FailedAbove, V!settled
  <2> QED
    BY <2>1, <2>2
<1> QED
  BY <1>2, <1>3, <1>4, <1>5

LEMMA V1Submit == ASSUME EngineAndMediaAssumption, V!V1Inv, V!Submit PROVE V!V1Inv'
<1>1. /\ plan' = plan /\ at = "idle" /\ at' = "fetch" /\ submitted' = submitted + 1 /\ submitted < MaxRuns
      /\ interrupted' = FALSE /\ fail_fast' = FALSE /\ summary' = "none"
      /\ completed' = {} /\ failed' = {} /\ skipped' = {}
      /\ UNCHANGED <<flight, attempt, row, status>>
  BY DEF V!Submit, V!tasks
<1>2. V!nodes' = V!nodes
  BY <1>1, SameGraph
<1>3. V!running = {}
  BY <1>1 DEF V!V1Inv, V!TasksInLoop
<1>4. /\ V!AttemptsBounded' /\ V!OneOutcome' /\ V!AboveIsCompleted' /\ V!BelowIsSkipped'
      /\ V!FailedAbove' /\ V!RowsKept' /\ V!running' = V!running
  BY <1>1, <1>3, TasksStay
<1>5. MaxRuns \in Nat
  BY PlanAssumed DEF V!V1Inv, V!TypeOK
<1>8. submitted' \in 0..MaxRuns
  BY <1>1, <1>5 DEF V!V1Inv, V!TypeOK
<1>6. V!TypeOK'
  BY <1>1, <1>2, <1>8 DEF V!V1Inv, V!TypeOK, V!Holding, V!Terminal
<1>7. V!TasksInLoop' /\ V!LoopEnds' /\ V!VerdictIsWhole'
  BY <1>1, <1>3, <1>4 DEF V!TasksInLoop, V!LoopEnds, V!VerdictIsWhole
<1> QED
  BY <1>4, <1>6, <1>7 DEF V!V1Inv

(* Fetch, Announce, DropRun: nothing but the place and the rows of the run.  *)
LEMMA V1Starts ==
    ASSUME EngineAndMediaAssumption, V!V1Inv, V!Fetch \/ V!Announce \/ V!DropRun \/ V!Cancel
    PROVE  V!V1Inv'
<1>1. /\ plan' = plan /\ submitted' = submitted
      /\ UNCHANGED <<completed, failed, skipped, fail_fast, flight, attempt, row>>
  BY DEF V!Fetch, V!Announce, V!DropRun, V!Cancel, V!results, V!tasks
<1>2. V!nodes' = V!nodes /\ (V!IsValid' <=> V!IsValid)
  BY <1>1, SameGraph
<1>3. /\ V!AttemptsBounded' /\ V!OneOutcome' /\ V!AboveIsCompleted' /\ V!BelowIsSkipped'
      /\ V!FailedAbove' /\ V!RowsKept' /\ V!running' = V!running
  BY <1>1, TasksStay
<1>4. /\ at \in {"idle", "fetch", "announce", "top", "wait", "checkpoint", "finalise"}
      /\ status \in {"PENDING", "RUNNING"} \cup V!Terminal /\ interrupted \in BOOLEAN
      /\ summary \in {"none", "ERROR", "dropped"} \cup V!Terminal
      /\ at \notin {"wait", "checkpoint"} => V!running = {}
      /\ at \in {"top", "wait", "checkpoint", "finalise"} => V!IsValid
      /\ at # "idle" => summary = "none"
  BY DEF V!V1Inv, V!TypeOK, V!TasksInLoop
<1>5. \/ at \in {"fetch", "announce"} /\ at' = "idle" /\ summary' \in {"ERROR", "dropped"}
           /\ status' \in {"PENDING", "RUNNING"} \cup V!Terminal /\ interrupted' = interrupted
      \/ at \in {"fetch"} /\ at' = "announce" /\ UNCHANGED <<summary, status, interrupted>>
      \/ at = "announce" /\ at' = "idle" /\ summary' = "FAILED" /\ status' = "FAILED"
           /\ ~V!IsValid /\ interrupted' = interrupted
      \/ at = "announce" /\ at' = "top" /\ V!IsValid /\ status' = "RUNNING"
           /\ UNCHANGED <<summary, interrupted>>
      \/ at' = at /\ at # "idle" /\ interrupted' = TRUE /\ UNCHANGED <<status, summary>>
  BY <1>4 DEF V!Fetch, V!Announce, V!DropRun, V!Cancel, V!Return, V!Terminal
<1>6. V!TypeOK'
  BY <1>1, <1>2, <1>4, <1>5 DEF V!V1Inv, V!TypeOK, V!Holding, V!Terminal
<1>7. V!TasksInLoop' /\ V!LoopEnds'
  BY <1>1, <1>2, <1>3, <1>4, <1>5 DEF V!V1Inv, V!TasksInLoop, V!LoopEnds, V!settled
<1>8. V!VerdictIsWhole'
  BY <1>1, <1>2, <1>4, <1>5 DEF V!VerdictIsWhole
<1> QED
  BY <1>3, <1>6, <1>7, <1>8 DEF V!V1Inv

(* The end of the loop is the end of its tasks; nothing that was written of  *)
(* a settled node is written again.                                          *)
LEMMA TasksCancelled ==
    ASSUME EngineAndMediaAssumption, V!V1Inv, plan' = plan, UNCHANGED <<completed, failed, skipped>>,
           V!CancelTasks
    PROVE  /\ V!AttemptsBounded' /\ V!OneOutcome' /\ V!AboveIsCompleted' /\ V!BelowIsSkipped'
           /\ V!FailedAbove' /\ V!RowsKept' /\ V!running' = {}
           /\ flight' \in [V!nodes -> {"none"}] /\ attempt' = attempt
           /\ row' \in [V!nodes -> {"absent", "RUNNING", "SKIPPED"} \cup V!Terminal]
<1>1. V!nodes' = V!nodes
  BY SameGraph
<1>2. flight' = [n \in V!nodes |-> "none"] /\ attempt' = attempt
  BY DEF V!CancelTasks
<1>3. V!running' = {}
  BY <1>1, <1>2 DEF V!running
<1>4. PICK goes_on : row' = [n \in V!nodes |->
                 CASE flight[n] = "executing" -> "CANCELLED"
                   [] flight[n] = "returned" -> "COMPLETED"
                   [] flight[n] = "saving" -> IF n \in goes_on THEN "COMPLETED" ELSE "CANCELLED"
                   [] flight[n] = "starting" /\ n \in goes_on -> "RUNNING"
                   [] flight[n] = "failing" /\ n \in goes_on -> "FAILED"
                   [] OTHER -> row[n]]
  BY DEF V!CancelTasks
<1>5. row \in [V!nodes -> {"absent", "RUNNING", "SKIPPED"} \cup V!Terminal]
  BY DEF V!V1Inv, V!TypeOK
<1>6. \A n \in V!nodes : row'[n] \in {"RUNNING", "COMPLETED", "FAILED", "CANCELLED", row[n]}
  BY <1>4
<1>7. row' \in [V!nodes -> {"absent", "RUNNING", "SKIPPED"} \cup V!Terminal]
  <2>1. \A n \in V!nodes : row'[n] \in {"absent", "RUNNING", "SKIPPED"} \cup V!Terminal
    BY <1>5, <1>6 DEF V!Terminal
  <2>2. row' = [n \in V!nodes |-> row'[n]]
    BY <1>4
  <2> QED
    BY <2>1, <2>2
<1>8. \A n \in V!settled : row'[n] = row[n] /\ n \in V!nodes
  <2> SUFFICES ASSUME NEW n \in V!settled
               PROVE  row'[n] = row[n] /\ n \in V!nodes
    OBVIOUS
  <2>1. n \in V!nodes /\ flight[n] = "none"
    BY SettledIsOver
  <2> QED
    BY <1>4, <2>1
<1>9. V!RowsKept'
  BY <1>1, <1>2, <1>8 DEF V!V1Inv, V!RowsKept, V!settled
<1>10. V!AttemptsBounded'
  BY <1>1, <1>2 DEF V!V1Inv, V!AttemptsBounded
<1>11. V!OneOutcome' /\ V!AboveIsCompleted' /\ V!BelowIsSkipped' /\ V!FailedAbove'
  BY <1>3, ResultsStay
<1>12. flight' \in [V!nodes -> {"none"}]
  BY <1>2
<1> QED
  BY <1>2, <1>3, <1>7, <1>9, <1>10, <1>11, <1>12

LEMMA V1Stops ==
    ASSUME EngineAndMediaAssumption, V!V1Inv, V!GiveUp \/ V!Unwind
    PROVE  V!V1Inv'
<1>1. /\ plan' = plan /\ UNCHANGED <<submitted, interrupted, completed, failed, skipped, fail_fast>>
      /\ V!CancelTasks
  BY DEF V!GiveUp, V!Unwind, V!results
<1>2. V!nodes' = V!nodes /\ (V!IsValid' <=> V!IsValid)
  BY <1>1, SameGraph
<1>3. /\ V!AttemptsBounded' /\ V!OneOutcome' /\ V!AboveIsCompleted' /\ V!BelowIsSkipped'
      /\ V!FailedAbove' /\ V!RowsKept' /\ V!running' = {}
      /\ flight' \in [V!nodes -> {"none"}] /\ attempt' = attempt
      /\ row' \in [V!nodes -> {"absent", "RUNNING", "SKIPPED"} \cup V!Terminal]
  BY <1>1, TasksCancelled
<1>4. /\ status \in {"PENDING", "RUNNING"} \cup V!Terminal
      /\ at \in {"top", "wait", "checkpoint", "finalise"} => V!IsValid
      /\ at # "idle" => summary = "none"
      /\ fail_fast => failed # {}
  BY DEF V!V1Inv, V!TypeOK, V!TasksInLoop, V!LoopEnds
<1>5. \/ at = "checkpoint" /\ fail_fast /\ at' = "finalise" /\ UNCHANGED <<status, summary>>
      \/ at' = "idle" /\ summary' = "CANCELLED" /\ status' = "CANCELLED"
      \/ at' = "idle" /\ summary' = "FAILED" /\ status' = "FAILED" /\ "store" \in plan.faults
  BY DEF V!GiveUp, V!Unwind, V!Return
<1>6. V!TypeOK'
  <2>1. flight' \in [V!nodes -> {"none", "queued", "ok", "error"} \cup V!Holding]
    BY <1>3
  <2>2. /\ at' \in {"idle", "finalise"} /\ status' \in {"PENDING", "RUNNING"} \cup V!Terminal
        /\ summary' \in {"none", "ERROR", "dropped"} \cup V!Terminal
    BY <1>4, <1>5 DEF V!Terminal
  <2> QED
    BY <1>1, <1>2, <1>3, <2>1, <2>2 DEF V!V1Inv, V!TypeOK, V!Holding, V!Terminal
<1>7. V!TasksInLoop' /\ V!LoopEnds' /\ V!VerdictIsWhole'
  BY <1>1, <1>2, <1>3, <1>4, <1>5 DEF V!TasksInLoop, V!LoopEnds, V!VerdictIsWhole
<1> QED
  BY <1>3, <1>6, <1>7 DEF V!V1Inv

(* The verdict of a loop that came to its end.                               *)
LEMMA V1Finalise ==
    ASSUME EngineAndMediaAssumption, V!V1Inv, V!Finalise
    PROVE  V!V1Inv'
<1>1. /\ plan' = plan /\ at = "finalise" /\ at' = "idle" /\ status' = summary'
      /\ summary' = IF failed # {} THEN "FAILED" ELSE "COMPLETED"
      /\ UNCHANGED <<submitted, interrupted, completed, failed, skipped, fail_fast, flight, attempt, row>>
  BY DEF V!Finalise, V!Return, V!results, V!tasks
<1>2. V!nodes' = V!nodes
  BY <1>1, SameGraph
<1>3. /\ V!AttemptsBounded' /\ V!OneOutcome' /\ V!AboveIsCompleted' /\ V!BelowIsSkipped'
      /\ V!FailedAbove' /\ V!RowsKept' /\ V!running' = V!running
  BY <1>1, TasksStay
<1>4. V!running = {} /\ (failed = {} => V!settled = V!nodes) /\ (fail_fast => failed # {})
  BY <1>1 DEF V!V1Inv, V!TasksInLoop, V!LoopEnds
<1>5. failed = {} => completed = V!nodes
  <2>1. failed = {} => skipped = {}
    BY DEF V!V1Inv, V!FailedAbove
  <2> QED
    BY <1>4, <2>1 DEF V!settled
<1>6. V!TypeOK'
  BY <1>1, <1>2 DEF V!V1Inv, V!TypeOK, V!Holding, V!Terminal
<1>7. V!TasksInLoop' /\ V!LoopEnds'
  BY <1>1, <1>3, <1>4 DEF V!TasksInLoop, V!LoopEnds
<1>8. V!VerdictIsWhole'
  BY <1>1, <1>2, <1>5 DEF V!VerdictIsWhole
<1> QED
  BY <1>3, <1>6, <1>7, <1>8 DEF V!V1Inv

(* A node's task goes on, and may write its row.                             *)
LEMMA TaskMoves ==
    ASSUME EngineAndMediaAssumption, V!V1Inv, NEW n \in V!nodes, NEW from, from # "none",
           NEW to \in {"queued", "ok", "error"} \cup V!Holding,
           NEW written \in {"RUNNING", "COMPLETED", "FAILED", row[n]},
           V!Move(n, from, to, written),
           attempt' \in [V!nodes -> 0..10], V!AttemptsBounded',
           "store" \notin plan.faults => /\ to = "ok" => written = "COMPLETED"
                                         /\ to = "error" => written = "FAILED"
    PROVE  V!V1Inv'
<1>1. /\ plan' = plan /\ flight[n] = from
      /\ UNCHANGED <<at, submitted, interrupted, completed, failed, skipped, fail_fast, status, summary>>
      /\ flight' = [flight EXCEPT ![n] = to] /\ row' = [row EXCEPT ![n] = written]
  BY DEF V!Move, V!results
<1>2. V!nodes' = V!nodes /\ (V!IsValid' <=> V!IsValid)
  BY <1>1, SameGraph
<1>3. /\ flight \in [V!nodes -> {"none", "queued", "ok", "error"} \cup V!Holding]
      /\ row \in [V!nodes -> {"absent", "RUNNING", "SKIPPED"} \cup V!Terminal]
  BY DEF V!V1Inv, V!TypeOK
<1>4. to # "none"
  BY DEF V!Holding
<1>5. V!running' = V!running
  BY <1>1, <1>2, <1>3, <1>4 DEF V!running
<1>6. V!OneOutcome' /\ V!AboveIsCompleted' /\ V!BelowIsSkipped' /\ V!FailedAbove'
  BY <1>1, <1>5, ResultsStay
<1>7. /\ flight' \in [V!nodes -> {"none", "queued", "ok", "error"} \cup V!Holding]
      /\ row' \in [V!nodes -> {"absent", "RUNNING", "SKIPPED"} \cup V!Terminal]
  <2>1. row[n] \in {"absent", "RUNNING", "SKIPPED"} \cup V!Terminal
    BY <1>3
  <2>2. written \in {"absent", "RUNNING", "SKIPPED"} \cup V!Terminal
    BY <2>1 DEF V!Terminal
  <2> QED
    BY <1>1, <1>3, <2>2
<1>8. V!TypeOK'
  BY <1>1, <1>2, <1>7 DEF V!V1Inv, V!TypeOK, V!Holding, V!Terminal
<1>9. V!TasksInLoop' /\ V!LoopEnds' /\ V!VerdictIsWhole'
  BY <1>1, <1>2, <1>5 DEF V!V1Inv, V!TasksInLoop, V!LoopEnds, V!VerdictIsWhole, V!settled
<1>10. n \notin V!settled
  BY <1>1, SettledIsOver
<1>11. V!RowsKept'
  BY <1>1, <1>2, <1>3, <1>10 DEF V!V1Inv, V!RowsKept, V!settled
<1> QED
  BY <1>6, <1>8, <1>9, <1>11 DEF V!V1Inv

LEMMA V1NodeStep ==
    ASSUME EngineAndMediaAssumption, V!V1Inv, NEW n \in V!nodes, V!NodeStep(n)
    PROVE  V!V1Inv'
<1>1. plan' = plan
  BY DEF V!NodeStep, V!Enter, V!Attempt, V!Succeed, V!Fail, V!Record, V!StoreFails, V!Move
<1>2. V!nodes' = V!nodes
  BY <1>1, SameGraph, SMTT(30)
<1>3. /\ attempt \in [V!nodes -> 0..10]
      /\ flight \in [V!nodes -> {"none", "queued", "ok", "error"} \cup V!Holding]
      /\ \A m \in V!nodes : /\ attempt[m] <= plan.max_retries[m]
                            /\ flight[m] \in {"queued", "starting"} => attempt[m] = 0
                            /\ flight[m] \in {"retrying", "backoff"} => attempt[m] < plan.max_retries[m]
  BY DEF V!V1Inv, V!TypeOK, V!AttemptsBounded
<1>4. plan.max_retries \in [V!nodes -> 1..10]
  BY PlanAssumed DEF V!V1Inv, V!TypeOK
<1>5. ASSUME NEW from, NEW to, NEW written, V!Move(n, from, to, written), attempt' = attempt,
             to = "starting" => from = "queued", to # "queued",
             to = "retrying" => attempt[n] # plan.max_retries[n],
             to = "backoff" => from = "retrying"
      PROVE  attempt' \in [V!nodes -> 0..10] /\ V!AttemptsBounded'
  <2>1. flight[n] = from /\ flight' = [flight EXCEPT ![n] = to]
    BY <1>5 DEF V!Move
  <2>2. attempt[n] \in 0..10 /\ plan.max_retries[n] \in 1..10
    BY <1>3, <1>4
  <2>3. ASSUME NEW m \in V!nodes
        PROVE  /\ attempt[m] <= plan.max_retries[m]
               /\ flight'[m] \in {"queued", "starting"} => attempt[m] = 0
               /\ flight'[m] \in {"retrying", "backoff"} => attempt[m] < plan.max_retries[m]
    <3>1. CASE m = n
      BY <1>3, <1>5, <2>1, <2>2, <3>1
    <3>2. CASE m # n
      BY <1>3, <2>1, <3>2
    <3> QED
      BY <3>1, <3>2
  <2> QED
    BY <1>1, <1>2, <1>3, <1>5, <2>3 DEF V!AttemptsBounded
<1>6. CASE V!Enter(n)
  <2>1. V!Move(n, "queued", "starting", row[n]) /\ attempt' = attempt
    BY <1>6 DEF V!Enter
  <2> QED
    BY <1>5, <2>1, TaskMoves DEF V!Holding
<1>7. CASE V!Attempt(n)
  <2>1. \/ V!Move(n, "starting", "executing", "RUNNING")
        \/ V!Move(n, "backoff", "executing", row[n])
    BY <1>7 DEF V!Attempt
  <2>2. flight[n] \in {"starting", "backoff"} /\ flight' = [flight EXCEPT ![n] = "executing"]
    BY <2>1 DEF V!Move
  <2>3. attempt' = [attempt EXCEPT ![n] = @ + 1]
    BY <1>7 DEF V!Attempt
  <2>4. attempt[n] \in 0..10 /\ plan.max_retries[n] \in 1..10 /\ attempt[n] + 1 <= plan.max_retries[n]
    <3>1. attempt[n] \in 0..10 /\ plan.max_retries[n] \in 1..10
      BY <1>3, <1>4
    <3> QED
      BY <1>3, <2>2, <3>1
  <2>5. attempt' \in [V!nodes -> 0..10]
    BY <1>3, <2>3, <2>4
  <2>6. ASSUME NEW m \in V!nodes
        PROVE  /\ attempt'[m] <= plan.max_retries[m]
               /\ flight'[m] \in {"queued", "starting"} => attempt'[m] = 0
               /\ flight'[m] \in {"retrying", "backoff"} => attempt'[m] < plan.max_retries[m]
    <3>1. CASE m = n
      BY <1>3, <2>2, <2>3, <2>4, <3>1
    <3>2. CASE m # n
      BY <1>3, <2>2, <2>3, <3>2
    <3> QED
      BY <3>1, <3>2
  <2>7. V!AttemptsBounded'
    BY <1>1, <1>2, <2>6 DEF V!AttemptsBounded
  <2> QED
    BY <2>1, <2>5, <2>7, TaskMoves DEF V!Holding
<1>8. CASE V!Succeed(n)
  <2>1. /\ \/ V!Move(n, "executing", "returned", row[n])
           \/ V!Move(n, "returned", "saving", row[n])
           \/ V!Move(n, "saving", "ok", "COMPLETED")
        /\ attempt' = attempt
    BY <1>8 DEF V!Succeed
  <2>2. CASE V!Move(n, "executing", "returned", row[n])
    BY <1>5, <2>1, <2>2, TaskMoves DEF V!Holding
  <2>3. CASE V!Move(n, "returned", "saving", row[n])
    BY <1>5, <2>1, <2>3, TaskMoves DEF V!Holding
  <2>4. CASE V!Move(n, "saving", "ok", "COMPLETED")
    BY <1>5, <2>1, <2>4, TaskMoves DEF V!Holding
  <2> QED
    BY <2>1, <2>2, <2>3, <2>4
<1>9. CASE V!Fail(n)
  <2>1. PICK to : to = IF attempt[n] = plan.max_retries[n] THEN "failing" ELSE "retrying"
    OBVIOUS
  <2>2. /\ V!Move(n, "executing", to, row[n]) \/ V!Move(n, "saving", to, row[n])
        /\ attempt' = attempt
    BY <1>9, <2>1 DEF V!Fail
  <2>3. to \in {"failing", "retrying"} /\ (to = "retrying" => attempt[n] # plan.max_retries[n])
    BY <2>1
  <2>4. to \in {"queued", "ok", "error"} \cup V!Holding
    BY <2>3 DEF V!Holding
  <2>5. attempt' \in [V!nodes -> 0..10] /\ V!AttemptsBounded'
    BY <1>5, <2>2, <2>3
  <2>6. CASE V!Move(n, "executing", to, row[n])
    BY <2>3, <2>4, <2>5, <2>6, TaskMoves
  <2>7. CASE V!Move(n, "saving", to, row[n])
    BY <2>3, <2>4, <2>5, <2>7, TaskMoves
  <2> QED
    BY <2>2, <2>6, <2>7
<1>10. CASE V!Record(n)
  <2>1. /\ \/ V!Move(n, "failing", "error", "FAILED")
           \/ V!Move(n, "retrying", "backoff", "RUNNING")
        /\ attempt' = attempt
    BY <1>10 DEF V!Record
  <2>2. CASE V!Move(n, "failing", "error", "FAILED")
    BY <1>5, <2>1, <2>2, TaskMoves DEF V!Holding
  <2>3. CASE V!Move(n, "retrying", "backoff", "RUNNING")
    BY <1>5, <2>1, <2>3, TaskMoves DEF V!Holding
  <2> QED
    BY <2>1, <2>2, <2>3
<1>11. CASE V!StoreFails(n)
  <2>1. PICK stage \in {"starting", "failing", "retrying"} : V!Move(n, stage, "error", row[n])
    BY <1>11 DEF V!StoreFails
  <2>2. attempt' = attempt /\ "store" \in plan.faults /\ stage # "none"
    BY <1>11 DEF V!StoreFails
  <2>3. attempt' \in [V!nodes -> 0..10] /\ V!AttemptsBounded'
    BY <1>5, <2>1, <2>2
  <2> QED
    BY <2>1, <2>2, <2>3, TaskMoves
<1> QED
  BY <1>6, <1>7, <1>8, <1>9, <1>10, <1>11 DEF V!NodeStep

(* When nothing runs and nothing is ready, the nodes left behind lie below   *)
(* failed ones: the graph is finite and has no cycle to wait in.             *)
LEMMA StalledBelowFailures ==
    ASSUME EngineAndMediaAssumption, V!V1Inv, V!IsValid, V!running = {}, V!ready = {},
           NEW n \in V!nodes, n \notin V!settled
    PROVE  \E m \in failed : n \in V!descendants(m)
<1> SUFFICES ASSUME \A m \in failed : n \notin V!descendants(m)
             PROVE  FALSE
  OBVIOUS
<1>1. plan \in Plans
  BY DEF V!V1Inv, V!TypeOK
<1>2. IsFiniteSet(V!nodes) /\ plan.edges \subseteq V!nodes \X V!nodes
  BY <1>1, PlanAssumed
<1>3. PICK size \in Nat : size = Cardinality(V!nodes)
  BY <1>2, FS_CardinalityType
<1>4. ASSUME NEW t \in V!nodes
      PROVE  /\ V!descendants(t) \subseteq V!nodes /\ IsFiniteSet(V!descendants(t))
             /\ Cardinality(V!descendants(t)) \in Nat /\ Cardinality(V!descendants(t)) <= size
  <2>1. V!descendants(t) \subseteq V!nodes
    BY <1>1, DescendantsClosed DEF Closure
  <2> QED
    BY <1>2, <1>3, <2>1, FS_Subset, FS_CardinalityType
<1> DEFINE Above(t) == t \in V!nodes /\ t \notin V!settled /\ (t = n \/ n \in V!descendants(t))
           T == {k \in Nat : \E t : Above(t) /\ Cardinality(V!descendants(t)) >= k}
<1>5. 0 \in T
  <2>1. Above(n) /\ Cardinality(V!descendants(n)) >= 0
    BY <1>4
  <2> QED
    BY <2>1
<1>6. ASSUME NEW k \in Nat, k \in T
      PROVE  k + 1 \in T
  <2>1. PICK t : Above(t) /\ Cardinality(V!descendants(t)) >= k
    BY <1>6
  <2>2. t \in V!nodes \ (V!settled \cup V!running) /\ t \notin V!ready
    BY <2>1
  <2>3. PICK d \in V!dependencies(t) : d \notin completed \cup skipped
    BY <2>2 DEF V!ready
  <2>4. <<d, t>> \in plan.edges /\ d \in V!nodes
    <3>1. PICK e \in plan.edges : e[2] = t /\ d = e[1]
      BY <2>3 DEF V!dependencies
    <3> QED
      BY <1>2, <3>1
  <2>5. t \in V!descendants(d)
    <3>1. t \in Heads(plan.edges, {d})
      BY <2>4 DEF Heads
    <3> QED
      BY <1>1, <3>1, DescendantsClosed DEF Closure
  <2>6. V!descendants(t) \subseteq V!descendants(d)
    BY <1>1, <2>5, DescendantsBelow
  <2>7. n \in V!descendants(d)
    BY <2>1, <2>5, <2>6
  <2>8. Above(d)
    BY <2>3, <2>4, <2>7 DEF V!settled
  <2>9. t \notin V!descendants(t)
    BY <2>1 DEF V!IsValid
  <2>10. PICK below : below = V!descendants(t)
    OBVIOUS
  <2>11. IsFiniteSet(below) /\ Cardinality(below) \in Nat /\ Cardinality(below) >= k
    BY <1>4, <2>1, <2>10
  <2>12. Cardinality(below \cup {t}) = Cardinality(below) + 1
    BY <2>9, <2>10, <2>11, FS_AddElement
  <2>13. below \cup {t} \subseteq V!descendants(d)
    BY <2>5, <2>6, <2>10
  <2>14. Cardinality(below \cup {t}) <= Cardinality(V!descendants(d))
    BY <1>4, <2>4, <2>13, FS_Subset
  <2>15. Cardinality(V!descendants(d)) >= k + 1
    BY <1>4, <2>4, <2>11, <2>12, <2>14
  <2> QED
    BY <2>8, <2>15
<1>7. size + 1 \in T
  <2> HIDE DEF T
  <2> QED
    BY <1>5, <1>6, Induction
<1>8. PICK t : Above(t) /\ Cardinality(V!descendants(t)) >= size + 1
  BY <1>7
<1> QED
  BY <1>4, <1>8

LEMMA V1Dispatch ==
    ASSUME EngineAndMediaAssumption, V!V1Inv, V!Dispatch
    PROVE  V!V1Inv'
<1>1. /\ plan' = plan /\ at \in {"top", "checkpoint"}
      /\ UNCHANGED <<submitted, interrupted, completed, failed, fail_fast, status, summary>>
  BY DEF V!Dispatch, V!Looping
<1>2. /\ V!nodes' = V!nodes /\ (V!IsValid' <=> V!IsValid)
      /\ \A n : V!descendants(n)' = V!descendants(n)
  BY <1>1, SameGraph
<1>3. /\ flight \in [V!nodes -> {"none", "queued", "ok", "error"} \cup V!Holding]
      /\ attempt \in [V!nodes -> 0..10]
      /\ row \in [V!nodes -> {"absent", "RUNNING", "SKIPPED"} \cup V!Terminal]
      /\ plan \in Plans
      /\ completed \subseteq V!nodes /\ failed \subseteq V!nodes /\ skipped \subseteq V!nodes
  BY DEF V!V1Inv, V!TypeOK
<1>4. V!IsValid /\ summary = "none"
  BY <1>1 DEF V!V1Inv, V!TasksInLoop
<1>5. PICK stalled : stalled = IF V!running \cup V!ready = {} THEN V!nodes \ V!settled ELSE {}
  OBVIOUS
<1>6. /\ flight' = [n \in V!nodes |-> IF n \in V!ready THEN "queued" ELSE flight[n]]
      /\ attempt' = [n \in V!nodes |-> IF n \in V!ready THEN 0 ELSE attempt[n]]
      /\ row' = [n \in V!nodes |-> IF n \in stalled THEN "SKIPPED" ELSE row[n]]
      /\ skipped' = skipped \cup stalled
      /\ at' = IF V!running \cup V!ready = {} THEN "finalise" ELSE "wait"
  BY <1>5 DEF V!Dispatch
<1>7. V!ready \subseteq V!nodes /\ V!ready \cap (V!settled \cup V!running) = {} /\ V!running \subseteq V!nodes
  BY DEF V!ready, V!running
<1>8. V!running' = V!running \cup V!ready
  BY <1>2, <1>3, <1>6, <1>7 DEF V!running
<1>9. /\ completed \cap failed = {} /\ completed \cap skipped = {} /\ failed \cap skipped = {}
      /\ V!settled \cap V!running = {} /\ V!settled = completed \cup failed \cup skipped
  BY DEF V!V1Inv, V!OneOutcome, V!settled
<1>10. stalled \cap V!settled = {} /\ stalled \subseteq V!nodes /\ (stalled # {} => V!running' = {})
  BY <1>5, <1>8
<1>11. V!OneOutcome'
  <2>1. V!settled' = V!settled \cup stalled
    BY <1>1, <1>6 DEF V!settled
  <2>2. V!settled' \cap V!running' = {}
    BY <1>7, <1>8, <1>9, <1>10, <2>1
  <2>3. completed' \cap skipped' = {} /\ failed' \cap skipped' = {} /\ completed' \cap failed' = {}
    BY <1>1, <1>6, <1>9, <1>10
  <2> QED
    BY <2>2, <2>3 DEF V!OneOutcome
<1>12. ASSUME NEW m \in completed \cup failed \cup V!running \cup V!ready, NEW n \in V!nodes,
              m \in V!descendants(n)
       PROVE  n \in completed
  <2>1. CASE m \in completed \cup failed \cup V!running
    BY <1>12, <2>1 DEF V!V1Inv, V!AboveIsCompleted
  <2>2. CASE m \in V!ready
    <3>1. PICK x \in V!dependencies(m) : x = n \/ x \in V!descendants(n)
      BY <1>3, <1>12, DescendantsLastEdge
    <3>2. x \in completed \cup skipped
      BY <2>2, <3>1 DEF V!ready
    <3>3. x \notin skipped
      <4>1. SUFFICES ASSUME x \in skipped PROVE FALSE
        OBVIOUS
      <4>2. m \in Heads(plan.edges, {x})
        BY <3>1 DEF Heads, V!dependencies
      <4>3. m \in V!descendants(x)
        BY <1>3, <4>2, DescendantsClosed DEF Closure
      <4>4. m \in skipped
        BY <4>1, <4>3 DEF V!V1Inv, V!BelowIsSkipped
      <4> QED
        BY <1>7, <1>9, <2>2, <4>4
    <3>4. CASE x = n
      BY <3>2, <3>3, <3>4
    <3>5. CASE x \in V!descendants(n)
      BY <3>2, <3>3, <3>5 DEF V!V1Inv, V!AboveIsCompleted
    <3> QED
      BY <3>1, <3>4, <3>5
  <2> QED
    BY <1>12, <2>1, <2>2
<1>13. V!AboveIsCompleted'
  BY <1>1, <1>2, <1>8, <1>12 DEF V!AboveIsCompleted
<1>14. V!BelowIsSkipped'
  <2>1. ASSUME NEW n \in skipped \cup stalled, NEW d \in V!descendants(n)
        PROVE  d \in skipped \cup stalled
    <3>1. CASE n \in skipped
      BY <2>1, <3>1 DEF V!V1Inv, V!BelowIsSkipped
    <3>2. CASE n \in stalled
      <4>1. n \in V!nodes /\ n \notin completed /\ stalled = V!nodes \ V!settled
        BY <1>5, <1>9, <1>10, <3>2
      <4>2. d \notin completed \cup failed
        BY <1>12, <2>1, <4>1
      <4>3. d \in V!nodes
        BY <1>3, <2>1, DescendantsClosed DEF Closure
      <4> QED
        BY <1>9, <4>1, <4>2, <4>3
    <3> QED
      BY <2>1, <3>1, <3>2
  <2> QED
    BY <1>2, <1>6, <2>1 DEF V!BelowIsSkipped
<1>15. V!FailedAbove'
  <2>1. ASSUME NEW n \in skipped PROVE \E m \in failed : n \in V!descendants(m)
    BY <2>1 DEF V!V1Inv, V!FailedAbove
  <2>2. ASSUME NEW n \in stalled PROVE \E m \in failed : n \in V!descendants(m)
    <3>1. V!running = {} /\ V!ready = {} /\ n \in V!nodes /\ n \notin V!settled
      BY <1>5, <2>2
    <3> QED
      BY <1>4, <3>1, StalledBelowFailures
  <2> QED
    BY <1>1, <1>2, <1>6, <2>1, <2>2 DEF V!FailedAbove
<1>16. V!TypeOK'
  <2>1. flight' \in [V!nodes -> {"none", "queued", "ok", "error"} \cup V!Holding]
    BY <1>3, <1>6
  <2>2. attempt' \in [V!nodes -> 0..10]
    BY <1>3, <1>6
  <2>3. row' \in [V!nodes -> {"absent", "RUNNING", "SKIPPED"} \cup V!Terminal]
    BY <1>3, <1>6
  <2>4. skipped' \subseteq V!nodes /\ at' \in {"wait", "finalise"}
    BY <1>3, <1>6, <1>10
  <2> QED
    BY <1>1, <1>2, <2>1, <2>2, <2>3, <2>4 DEF V!V1Inv, V!TypeOK, V!Holding, V!Terminal
<1>17. V!AttemptsBounded'
  <2>1. plan.max_retries \in [V!nodes -> 1..10]
    BY <1>3, PlanAssumed
  <2>2. ASSUME NEW n \in V!nodes
        PROVE  /\ attempt'[n] <= plan.max_retries[n]
               /\ flight'[n] \in {"queued", "starting"} => attempt'[n] = 0
               /\ flight'[n] \in {"retrying", "backoff"} => attempt'[n] < plan.max_retries[n]
    <3>1. CASE n \in V!ready
      BY <1>6, <2>1, <3>1
    <3>2. CASE n \notin V!ready
      BY <1>6, <3>2 DEF V!V1Inv, V!AttemptsBounded
    <3> QED
      BY <3>1, <3>2
  <2> QED
    BY <1>1, <1>2, <2>2 DEF V!AttemptsBounded
<1>18. V!TasksInLoop'
  BY <1>1, <1>2, <1>4, <1>6, <1>8 DEF V!TasksInLoop
<1>19. V!LoopEnds'
  <2>1. at' = "finalise" => skipped' = skipped \cup (V!nodes \ V!settled)
    BY <1>5, <1>6
  <2>2. at' = "finalise" => V!settled' = V!nodes
    BY <1>1, <1>3, <1>9, <2>1 DEF V!settled
  <2> QED
    BY <1>1, <1>2, <2>2 DEF V!V1Inv, V!LoopEnds
<1>20. V!VerdictIsWhole'
  BY <1>1, <1>4 DEF V!VerdictIsWhole
<1>21. V!RowsKept'
  <2>1. \A n \in completed \cup failed \cup skipped : row'[n] = row[n]
    BY <1>3, <1>6, <1>9, <1>10
  <2>2. \A n \in stalled : row'[n] = "SKIPPED"
    BY <1>6, <1>10
  <2>3. ASSUME NEW n \in V!nodes, flight'[n] \in {"ok", "error"}
        PROVE  flight[n] = flight'[n] /\ row'[n] = row[n]
    <3>1. n \notin V!ready /\ flight'[n] = flight[n]
      BY <1>6, <2>3
    <3>2. n \in V!running
      BY <2>3, <3>1 DEF V!running
    <3>3. n \notin stalled
      BY <1>5, <3>2
    <3> QED
      BY <1>6, <3>1, <3>3
  <2> QED
    BY <1>1, <1>2, <1>6, <2>1, <2>2, <2>3 DEF V!V1Inv, V!RowsKept
<1> QED
  BY <1>11, <1>13, <1>14, <1>15, <1>16, <1>17, <1>18, <1>19, <1>20, <1>21 DEF V!V1Inv

(* Results are sorted in: what lies below a failure was behind it.           *)
LEMMA V1Settle ==
    ASSUME EngineAndMediaAssumption, V!V1Inv, V!Settle
    PROVE  V!V1Inv'
<1>1. /\ plan' = plan /\ at = "wait" /\ at' = "checkpoint"
      /\ UNCHANGED <<submitted, interrupted, attempt, status, summary>>
  BY DEF V!Settle
<1>2. /\ V!nodes' = V!nodes /\ (V!IsValid' <=> V!IsValid)
      /\ \A n : V!descendants(n)' = V!descendants(n)
  BY <1>1, SameGraph
<1>3. /\ flight \in [V!nodes -> {"none", "queued", "ok", "error"} \cup V!Holding]
      /\ row \in [V!nodes -> {"absent", "RUNNING", "SKIPPED"} \cup V!Terminal]
      /\ plan \in Plans
      /\ completed \subseteq V!nodes /\ failed \subseteq V!nodes /\ skipped \subseteq V!nodes
  BY DEF V!V1Inv, V!TypeOK
<1>4. V!IsValid /\ summary = "none"
  BY <1>1 DEF V!V1Inv, V!TasksInLoop
<1>5. PICK errors : errors = {n \in V!finished : flight[n] = "error"}
  OBVIOUS
<1>6. PICK go : go = {n \in errors : plan.on_error[n] = "continue"}
  OBVIOUS
<1>7. PICK cut : cut = {n \in errors : plan.on_error[n] = "skip_branch"}
  OBVIOUS
<1>8. PICK oks : oks = V!finished \ errors
  OBVIOUS
<1>9. PICK below : below = UNION {V!descendants(n) : n \in cut}
  OBVIOUS
<1>10. PICK new : new = below \ (completed \cup oks \cup go \cup skipped)
  OBVIOUS
<1>11. PICK after : after = V!AfterFailures(oks, errors)
  OBVIOUS
<1>12. after.completed = oks \cup go /\ after.failed = errors \ go /\ after.skipped = new
  <2>1. V!Of(errors, "continue") = go /\ V!Of(errors, "skip_branch") = cut
    BY <1>6, <1>7 DEF V!Of
  <2>2. after = V!Sorted(oks, errors \ go, go, cut)
    BY <1>11, <2>1 DEF V!AfterFailures
  <2>3. (UNION {V!descendants(n) : n \in cut}) \ (completed \cup oks \cup go \cup skipped) = new
    BY <1>9, <1>10
  <2>4. /\ after.completed = oks \cup go /\ after.failed = errors \ go
        /\ after.skipped = (UNION {V!descendants(n) : n \in cut}) \ (completed \cup oks \cup go \cup skipped)
    BY <2>2 DEF V!Sorted
  <2> QED
    BY <2>3, <2>4
<1>13. /\ completed' = completed \cup after.completed /\ failed' = failed \cup after.failed
       /\ skipped' = skipped \cup after.skipped /\ fail_fast' = (V!Of(errors, "fail") # {})
       /\ row' = [n \in V!nodes |-> IF n \in after.skipped THEN "SKIPPED" ELSE row[n]]
       /\ flight' = [n \in V!nodes |-> IF n \in V!finished THEN "none" ELSE flight[n]]
  BY <1>5, <1>8, <1>11 DEF V!Settle
<1>14. /\ completed' = completed \cup oks \cup go /\ failed' = failed \cup (errors \ go)
       /\ skipped' = skipped \cup new
       /\ row' = [n \in V!nodes |-> IF n \in new THEN "SKIPPED" ELSE row[n]]
  BY <1>12, <1>13
<1>15. /\ V!finished \subseteq V!running /\ V!running \subseteq V!nodes
       /\ \A n \in oks : flight[n] = "ok"
       /\ \A n \in errors : flight[n] = "error"
       /\ oks \subseteq V!finished /\ errors \subseteq V!finished /\ go \subseteq errors /\ cut \subseteq errors
       /\ cut \cap go = {} /\ oks \cap errors = {}
  BY <1>5, <1>6, <1>7, <1>8 DEF V!finished, V!running
<1>16. V!running' = V!running \ V!finished
  BY <1>2, <1>13 DEF V!running
<1>17. /\ completed \cap failed = {} /\ completed \cap skipped = {} /\ failed \cap skipped = {}
       /\ V!settled \cap V!running = {} /\ V!settled = completed \cup failed \cup skipped
  BY DEF V!V1Inv, V!OneOutcome, V!settled
<1>18. below \cap (completed \cup failed \cup V!running) = {} /\ below \subseteq V!nodes
  <2> SUFFICES ASSUME NEW d \in below
               PROVE  d \in V!nodes /\ d \notin completed \cup failed \cup V!running
    OBVIOUS
  <2>1. PICK n \in cut : d \in V!descendants(n)
    BY <1>9
  <2>2. n \in V!nodes /\ n \notin completed
    BY <1>15, <1>17
  <2>3. d \notin completed \cup failed \cup V!running
    BY <2>1, <2>2 DEF V!V1Inv, V!AboveIsCompleted
  <2> QED
    BY <1>3, <2>1, <2>3, DescendantsClosed DEF Closure
<1>19. new = below \ skipped /\ skipped' = skipped \cup below
  <2>1. oks \cup go \subseteq V!running
    BY <1>15
  <2> QED
    BY <1>10, <1>14, <1>18, <2>1
<1>20. V!OneOutcome'
  <2>1. completed' \cap failed' = {}
    BY <1>14, <1>15, <1>17
  <2>2. completed' \cap skipped' = {} /\ failed' \cap skipped' = {}
    BY <1>14, <1>15, <1>17, <1>18, <1>19
  <2>3. V!settled' = completed' \cup failed' \cup skipped'
    BY DEF V!settled
  <2>4. V!settled' \cap V!running' = {}
    BY <1>14, <1>15, <1>16, <1>17, <1>18, <1>19, <2>3
  <2> QED
    BY <2>1, <2>2, <2>4 DEF V!OneOutcome
<1>21. V!AboveIsCompleted'
  <2>1. completed' \cup failed' \cup V!running' \subseteq completed \cup failed \cup V!running
    BY <1>14, <1>15, <1>16
  <2>2. ASSUME NEW m \in completed' \cup failed' \cup V!running', NEW n \in V!nodes,
               m \in V!descendants(n)
        PROVE  n \in completed'
    <3>1. m \in completed \cup failed \cup V!running
      BY <2>1, <2>2
    <3>2. n \in completed
      BY <2>2, <3>1 DEF V!V1Inv, V!AboveIsCompleted
    <3> QED
      BY <1>14, <3>2
  <2> QED
    BY <1>2, <2>2 DEF V!AboveIsCompleted
<1>22. V!BelowIsSkipped'
  <2>1. ASSUME NEW n \in skipped \cup below
        PROVE  V!descendants(n) \subseteq skipped \cup below
    <3>1. CASE n \in skipped
      BY <3>1 DEF V!V1Inv, V!BelowIsSkipped
    <3>2. CASE n \in below
      <4>1. PICK c \in cut : n \in V!descendants(c)
        BY <1>9, <3>2
      <4>2. V!descendants(n) \subseteq V!descendants(c)
        BY <1>3, <4>1, DescendantsBelow
      <4> QED
        BY <1>9, <4>2
    <3> QED
      BY <2>1, <3>1, <3>2
  <2> QED
    BY <1>2, <1>19, <2>1 DEF V!BelowIsSkipped
<1>23. V!FailedAbove'
  <2>1. ASSUME NEW n \in skipped \cup below
        PROVE  \E m \in failed' : n \in V!descendants(m)
    <3>1. CASE n \in skipped
      BY <1>14, <3>1 DEF V!V1Inv, V!FailedAbove
    <3>2. CASE n \in below
      <4>1. PICK c \in cut : n \in V!descendants(c)
        BY <1>9, <3>2
      <4> QED
        BY <1>14, <1>15, <4>1
    <3> QED
      BY <2>1, <3>1, <3>2
  <2> QED
    BY <1>2, <1>19, <2>1 DEF V!FailedAbove
<1>24. V!TypeOK'
  <2>1. flight' \in [V!nodes -> {"none", "queued", "ok", "error"} \cup V!Holding]
    BY <1>3, <1>13
  <2>2. row' \in [V!nodes -> {"absent", "RUNNING", "SKIPPED"} \cup V!Terminal]
    BY <1>3, <1>14
  <2>3. completed' \subseteq V!nodes /\ failed' \subseteq V!nodes /\ skipped' \subseteq V!nodes
    BY <1>3, <1>14, <1>15, <1>18, <1>19
  <2>4. fail_fast' \in BOOLEAN
    BY <1>13
  <2> QED
    BY <1>1, <1>2, <2>1, <2>2, <2>3, <2>4 DEF V!V1Inv, V!TypeOK, V!Holding, V!Terminal
<1>25. V!AttemptsBounded'
  BY <1>1, <1>2, <1>13 DEF V!V1Inv, V!AttemptsBounded
<1>26. V!TasksInLoop' /\ V!VerdictIsWhole'
  BY <1>1, <1>2, <1>4 DEF V!TasksInLoop, V!VerdictIsWhole
<1>27. V!LoopEnds'
  <2>1. ASSUME fail_fast' PROVE failed' # {}
    <3>1. PICK n \in errors : plan.on_error[n] = "fail"
      BY <1>13, <2>1 DEF V!Of
    <3>2. n \in errors \ go
      BY <1>6, <3>1
    <3> QED
      BY <1>14, <3>2
  <2> QED
    BY <1>1, <2>1 DEF V!LoopEnds
<1>28. V!RowsKept'
  <2>1. new \cap (completed \cup failed \cup skipped \cup V!running) = {}
    BY <1>10, <1>18, <1>19
  <2>2. ASSUME NEW n \in completed \cup failed \cup skipped \cup V!running
        PROVE  row'[n] = row[n] /\ n \in V!nodes
    BY <1>3, <1>14, <1>15, <2>1, <2>2
  <2>3. \A n \in new : row'[n] = "SKIPPED"
    BY <1>14, <1>18, <1>19
  <2>4. \A n \in V!nodes : flight'[n] \notin {"ok", "error"}
    BY <1>13 DEF V!finished
  <2>5. ASSUME "store" \notin plan.faults
        PROVE  /\ \A n \in completed' : \/ row'[n] = "COMPLETED"
                                        \/ row'[n] = "FAILED" /\ plan.on_error[n] = "continue"
               /\ \A n \in failed' : row'[n] = "FAILED"
               /\ \A n \in skipped' : row'[n] = "SKIPPED"
    <3>1. /\ \A n \in oks : row[n] = "COMPLETED"
          /\ \A n \in errors : row[n] = "FAILED"
          /\ \A n \in completed : row[n] = "COMPLETED" \/ (row[n] = "FAILED" /\ plan.on_error[n] = "continue")
          /\ \A n \in failed : row[n] = "FAILED"
          /\ \A n \in skipped : row[n] = "SKIPPED"
      BY <1>15, <2>5 DEF V!V1Inv, V!RowsKept
    <3>2. \A n \in oks \cup errors : row'[n] = row[n]
      BY <1>15, <2>2
    <3>3. \A n \in go : plan.on_error[n] = "continue" /\ n \in errors
      BY <1>6
    <3> QED
      BY <1>14, <2>2, <2>3, <3>1, <3>2, <3>3
  <2> QED
    BY <1>1, <1>2, <2>4, <2>5 DEF V!RowsKept
<1> QED
  BY <1>20, <1>21, <1>22, <1>23, <1>24, <1>25, <1>26, <1>27, <1>28 DEF V!V1Inv

LEMMA V1Step == ASSUME EngineAndMediaAssumption, V!V1Inv, V!Next PROVE V!V1Inv'
<1>1. CASE V!Submit
  BY <1>1, V1Submit
<1>2. CASE V!Fetch \/ V!Announce \/ V!DropRun \/ V!Cancel
  BY <1>2, V1Starts
<1>3. CASE V!GiveUp \/ V!Unwind
  BY <1>3, V1Stops
<1>4. CASE V!Dispatch
  BY <1>4, V1Dispatch
<1>5. CASE V!Settle
  BY <1>5, V1Settle
<1>6. CASE V!Finalise
  BY <1>6, V1Finalise
<1>7. CASE \E n \in V!nodes : V!NodeStep(n)
  BY <1>7, V1NodeStep
<1> QED
  BY <1>1, <1>2, <1>3, <1>4, <1>5, <1>6, <1>7 DEF V!Next, V!Step

LEMMA V1Stutters == ASSUME V!V1Inv, UNCHANGED v1 PROVE V!V1Inv'
<1>1. UNCHANGED <<plan, at, submitted, interrupted, completed, failed, skipped, fail_fast, flight,
                  attempt, row, status, summary>>
  BY DEF v1
<1>2. V!nodes' = V!nodes /\ (V!IsValid' <=> V!IsValid) /\ \A n : V!descendants(n)' = V!descendants(n)
  BY <1>1, SameGraph
<1>3. V!running' = V!running /\ V!settled' = V!settled
  BY <1>1, <1>2 DEF V!running, V!settled
<1>4. V!TypeOK'
  BY <1>1, <1>2 DEF V!V1Inv, V!TypeOK, V!Holding, V!Terminal
<1>5. V!AttemptsBounded' /\ V!TasksInLoop' /\ V!OneOutcome' /\ V!LoopEnds'
  BY <1>1, <1>2, <1>3 DEF V!V1Inv, V!AttemptsBounded, V!TasksInLoop, V!OneOutcome, V!LoopEnds
<1>6. V!AboveIsCompleted' /\ V!BelowIsSkipped' /\ V!FailedAbove'
  BY <1>1, <1>2, <1>3 DEF V!V1Inv, V!AboveIsCompleted, V!BelowIsSkipped, V!FailedAbove
<1>7. V!RowsKept' /\ V!VerdictIsWhole'
  BY <1>1, <1>2, <1>3 DEF V!V1Inv, V!RowsKept, V!VerdictIsWhole
<1> QED
  BY <1>4, <1>5, <1>6, <1>7 DEF V!V1Inv

(* What the invariant says of a run that is over.                            *)
LEMMA V1Promises ==
    ASSUME V!V1Inv
    PROVE  V!TypeOK /\ V!VerdictIsWhole /\ V!SkippedBelowFailures /\ V!RowsMatchLists
<1>1. V!SkippedBelowFailures
  <2>1. ASSUME NEW n \in skipped
        PROVE  /\ \E m \in failed : n \in V!descendants(m)
               /\ flight[n] = "none" /\ n \notin completed \cup failed
    <3>1. flight[n] = "none"
      BY <2>1, SettledIsOver DEF V!settled
    <3> QED
      BY <2>1, <3>1 DEF V!V1Inv, V!FailedAbove, V!OneOutcome
  <2> QED
    BY <2>1 DEF V!SkippedBelowFailures
<1>2. V!RowsMatchLists
  BY DEF V!V1Inv, V!RowsKept, V!RowsMatchLists
<1> QED
  BY <1>1, <1>2 DEF V!V1Inv

(* OutcomesSound holds in every state: a run reports COMPLETED only with all *)
(* its nodes completed, it skips a node only below one that failed, and its  *)
(* lists agree with the rows, for every graph, policy and order of events.   *)
THEOREM OutcomesSafe == Spec => []OutcomesSound
<1> DEFINE Inv == picked = "v1" => V!V1Inv
<1>1. Init => Inv
  BY EngineAndMediaAssumption, V1Init DEF Init
<1>2. Inv /\ [Next]_vars => Inv'
  <2> SUFFICES ASSUME Inv, [Next]_vars, picked' = "v1"
               PROVE  V!V1Inv'
    OBVIOUS
  <2>1. CASE NextV1
    BY <2>1, EngineAndMediaAssumption, V1Step DEF NextV1
  <2>2. CASE NextRetries \/ NextSandbox \/ NextMedia \/ NextLog \/ UNCHANGED vars
    <3>1. picked = "v1" /\ UNCHANGED v1
      BY <2>2 DEF NextRetries, NextSandbox, NextMedia, NextLog, vars
    <3> QED
      BY <3>1, V1Stutters
  <2> QED
    BY <2>1, <2>2 DEF Next
<1>3. Inv => OutcomesSound
  BY V1Promises DEF OutcomesSound
<1> QED
  BY <1>1, <1>2, <1>3, PTL DEF Spec

=============================================================================
