-------------------------- MODULE WorkflowLibrary --------------------------
(***************************************************************************)
(* Workflow definitions and the record of their runs: workflow_router.py,    *)
(* the repositories, and history.py.  The handlers run in a thread pool and  *)
(* every repository call is a transaction of its own, so that two requests   *)
(* may interleave between any two calls.  The primary keys are SQLite row    *)
(* ids without AUTOINCREMENT: the largest key, once deleted, is used again.  *)
(***************************************************************************)
EXTENDS Integers, Sequences, FiniteSets, SequencesExt, FiniteSetsExt, Functions

CONSTANTS Clients,
          Asks,             \* the requests: op, workflow, two row ids, a label, a payload
          PageSize,         \* limit of a history page
          MaxRequests,      \* bound: requests in all
          None

LibraryAssumption ==
    /\ PageSize \in Nat \ {0} /\ MaxRequests \in Nat /\ None \notin Nat
    /\ \A ask \in Asks :
          ask \in [op : STRING, w : Nat, a : Nat, b : Nat, label : STRING,
                  graph : [ids : BOOLEAN, nodes : Seq(Nat), edges : Seq(Nat \X Nat \X STRING)]]

VARIABLES
    workflows,      \* ids of the rows of workflows
    nodes,          \* rows of workflow_nodes, by id
    edges,          \* rows of workflow_edges, by id
    executions,     \* rows of workflow_executions, by id
    req,            \* req[c], the request of client c
    answered,       \* requests sent so far
    overlapped,     \* history: two writing requests were under way at once
    unchecked,      \* history: an unsound graph was accepted, its nodes without ids
    removed         \* history: how often rows of executions were deleted

rows == <<workflows, nodes, edges, executions>>
vars == <<workflows, nodes, edges, executions, req, answered, overlapped, unchecked, removed>>

-----------------------------------------------------------------------------
(* Tables.                                                                   *)

NewId(table) == IF DOMAIN table = {} THEN 1 ELSE Max(DOMAIN table) + 1
Insert(table, row) == [i \in DOMAIN table \cup {NewId(table)} |->
                          IF i \in DOMAIN table THEN table[i] ELSE row]
Without(table, ids) == Restrict(table, DOMAIN table \ ids)
OfWorkflow(table, w) == {i \in DOMAIN table : table[i].wf = w}

(* ON DELETE CASCADE: the edges that lose an end.                            *)
Touching(ids) == {e \in DOMAIN edges : edges[e].src \in ids \/ edges[e].dst \in ids}

DeleteNodes(ids) ==
    /\ nodes' = Without(nodes, ids)
    /\ edges' = Without(edges, Touching(ids))

DeleteEdges(ids) == edges' = Without(edges, ids) /\ UNCHANGED nodes

(* ON DELETE CASCADE for all a workflow owns, SET NULL for lineage.          *)
DeleteWorkflow(w) ==
    LET lost == OfWorkflow(executions, w)
        left == Without(executions, lost)
    IN /\ workflows' = workflows \ {w}
       /\ nodes' = Without(nodes, OfWorkflow(nodes, w))
       /\ edges' = Without(edges, OfWorkflow(edges, w) \cup Touching(OfWorkflow(nodes, w)))
       /\ executions' = [e \in DOMAIN left |->
                            IF left[e].parent \in lost THEN [left[e] EXCEPT !.parent = None]
                            ELSE left[e]]
       /\ removed' = IF lost = {} THEN removed ELSE removed + 1

-----------------------------------------------------------------------------
(* Graphs: edges are triples of source, target and label.                    *)

Forward(triples) == {<<t[1], t[2]>> : t \in {x \in triples : x[3] # "loop"}}

(* find_cycles() finds one exactly when there is one (see GraphAlgorithms).  *)
Acyclic(ids, pairs) ==
    ~ \E circle \in (SUBSET ids) \ {{}} : \A n \in circle : \E o \in circle : <<n, o>> \in pairs

(* validate_graph(): no errors.                                              *)
validate_graph(ids, pairs) ==
    /\ ids # {}
    /\ \A p \in pairs : p[1] \in ids /\ p[2] \in ids /\ p[1] # p[2]
    /\ Acyclic(ids, pairs)

validate_graph_with_loops(ids, triples) ==
    /\ validate_graph(ids, Forward(triples))
    /\ \A t \in triples : t[1] \in ids /\ t[2] \in ids /\ t[1] # t[2]

Triples(ids) == {<<edges[e].src, edges[e].dst, edges[e].label>> : e \in ids}

-----------------------------------------------------------------------------
(* Requests.                                                                 *)

Idle == [stage |-> "idle"]

Is(c, op, stage) == req[c].stage = stage /\ req[c].ask.op = op

Goto(c, stage) == req' = [req EXCEPT ![c].stage = stage]
End(c) == req' = [req EXCEPT ![c] = Idle]
Same == UNCHANGED <<answered, overlapped, unchecked>>
Quiet == Same /\ UNCHANGED removed

Writes(ask) == ask.op # "search"

(* What replace_graph() accepts: node ids of the client make the edges       *)
(* checked; without ids the nodes are numbered from 0 and edges are not.     *)
Names(graph) == IF graph.ids THEN ToSet(graph.nodes) ELSE 0..(Len(graph.nodes) - 1)
Sound(graph) == validate_graph_with_loops(Names(graph), ToSet(graph.edges))

AcceptsGraph(graph) ==
    graph.nodes # <<>> /\ graph.ids => IsInjective(graph.nodes) /\ Sound(graph)

First(ask) ==
    CASE ask.op = "put" -> "delete_edges"
      [] ask.op \in {"delete_node", "delete_edge"} -> "find"
      [] OTHER -> "start"

(* _require_workflow(), _require_execution() and the checks of the payload.  *)
Accepts(ask) ==
    CASE ask.op = "put" -> ask.w \in workflows /\ AcceptsGraph(ask.graph)
      [] ask.op \in {"create_workflow", "search"} -> TRUE
      [] ask.op \in {"replay", "resume_failed"} -> ask.a \in DOMAIN executions
      [] OTHER -> ask.w \in workflows

Begin(c, ask) ==
    /\ req[c].stage = "idle" /\ answered < MaxRequests
    /\ answered' = answered + 1
    /\ overlapped' = (overlapped \/ (Writes(ask) /\ \E d \in Clients \ {c} :
                                        req[d].stage # "idle" /\ Writes(req[d].ask)))
    /\ unchecked' = (unchecked \/ (/\ ask.op = "put" /\ Accepts(ask)
                                  /\ ask.graph.nodes # <<>> /\ ~Sound(ask.graph)))
    /\ req' = IF Accepts(ask)
              THEN [req EXCEPT ![c] = [stage |-> First(ask), ask |-> ask, ids |-> {}, map |-> <<>>,
                                       made |-> 0, last |-> None,
                                       source |-> IF ask.op \in {"replay", "resume_failed"}
                                                  THEN executions[ask.a] ELSE None,
                                       skip |-> 0, seen |-> {}, before |-> DOMAIN executions,
                                       removed |-> removed]]
              ELSE req
    /\ UNCHANGED <<workflows, nodes, edges, executions, removed>>

create_workflow(c) ==
    /\ Is(c, "create_workflow", "start")
    /\ workflows' = workflows \cup {IF workflows = {} THEN 1 ELSE Max(workflows) + 1}
    /\ End(c) /\ Quiet /\ UNCHANGED <<nodes, edges, executions>>

delete_workflow(c) ==
    /\ Is(c, "delete_workflow", "start")
    /\ IF req[c].ask.w \in workflows THEN DeleteWorkflow(req[c].ask.w)
       ELSE UNCHANGED <<workflows, nodes, edges, executions, removed>>
    /\ End(c) /\ Same

-----------------------------------------------------------------------------
(* replace_graph(): one transaction for each statement.                      *)

PutDeleteEdges(c) ==
    /\ Is(c, "put", "delete_edges")
    /\ DeleteEdges(OfWorkflow(edges, req[c].ask.w)) /\ Goto(c, "delete_nodes")
    /\ Quiet /\ UNCHANGED <<workflows, executions>>

PutDeleteNodes(c) ==
    /\ Is(c, "put", "delete_nodes")
    /\ DeleteNodes(OfWorkflow(nodes, req[c].ask.w)) /\ Goto(c, "create_nodes")
    /\ Quiet /\ UNCHANGED <<workflows, executions>>

(* create() reads its row back after the commit.                             *)
Intact(c, table) == req[c].last = None \/ req[c].last \in DOMAIN table

PutNode(c) ==
    LET node == [wf |-> req[c].ask.w]
        more == Len(req[c].map) < Len(req[c].ask.graph.nodes)
    IN /\ Is(c, "put", "create_nodes") /\ Intact(c, nodes)
       /\ IF ~more THEN req' = [req EXCEPT ![c].stage = "create_edges", ![c].last = None]
                        /\ UNCHANGED nodes
          ELSE IF req[c].ask.w \in workflows
          THEN /\ nodes' = Insert(nodes, node)
               /\ req' = [req EXCEPT ![c].map = Append(@, NewId(nodes)), ![c].last = NewId(nodes)]
          ELSE End(c) /\ UNCHANGED nodes
       /\ Quiet /\ UNCHANGED <<workflows, edges, executions>>

(* id_map: from the ids, or the positions, of the payload to rows.           *)
Mapped(graph, map, id) ==
    LET at == {i \in DOMAIN graph.nodes : id = IF graph.ids THEN graph.nodes[i] ELSE i - 1}
    IN IF at = {} THEN id ELSE map[Max(at)]

PutEdge(c) ==
    LET graph == req[c].ask.graph
        edge == graph.edges[req[c].made + 1]
        ends == <<Mapped(graph, req[c].map, edge[1]), Mapped(graph, req[c].map, edge[2])>>
    IN /\ Is(c, "put", "create_edges") /\ Intact(c, edges)
       /\ IF /\ req[c].made < Len(graph.edges)
             /\ ToSet(ends) \subseteq ToSet(req[c].map)
             /\ ToSet(ends) \subseteq DOMAIN nodes /\ req[c].ask.w \in workflows
          THEN /\ edges' = Insert(edges, [wf |-> req[c].ask.w, src |-> ends[1], dst |-> ends[2],
                                          label |-> edge[3]])
               /\ req' = [req EXCEPT ![c].made = @ + 1, ![c].last = NewId(edges)]
          ELSE End(c) /\ UNCHANGED edges
       /\ Quiet /\ UNCHANGED <<workflows, nodes, executions>>

(* The row just created is gone when it is read back: the request fails.     *)
PutLost(c) ==
    /\ \/ Is(c, "put", "create_nodes") /\ ~Intact(c, nodes)
       \/ Is(c, "put", "create_edges") /\ ~Intact(c, edges)
    /\ End(c) /\ Quiet /\ UNCHANGED rows

-----------------------------------------------------------------------------
(* Single nodes and edges.                                                   *)

create_node(c) ==
    /\ Is(c, "create_node", "start")
    /\ nodes' = IF req[c].ask.w \in workflows THEN Insert(nodes, [wf |-> req[c].ask.w]) ELSE nodes
    /\ End(c) /\ Quiet /\ UNCHANGED <<workflows, edges, executions>>

(* The node, or edge, is one of this workflow.                               *)
Find(c) ==
    /\ req[c].stage = "find"
    /\ LET table == IF req[c].ask.op = "delete_edge" THEN edges ELSE nodes
       IN IF req[c].ask.a \in OfWorkflow(table, req[c].ask.w)
          THEN Goto(c, IF req[c].ask.op = "delete_node" THEN "unlink" ELSE "start") ELSE End(c)
    /\ Quiet /\ UNCHANGED rows

delete_by_node(c) ==
    /\ Is(c, "delete_node", "unlink")
    /\ DeleteEdges(Touching({req[c].ask.a})) /\ Goto(c, "start")
    /\ Quiet /\ UNCHANGED <<workflows, executions>>

delete_node(c) ==
    /\ Is(c, "delete_node", "start")
    /\ DeleteNodes({req[c].ask.a}) /\ End(c)
    /\ Quiet /\ UNCHANGED <<workflows, executions>>

delete_edge(c) ==
    /\ Is(c, "delete_edge", "start")
    /\ DeleteEdges({req[c].ask.a}) /\ End(c)
    /\ Quiet /\ UNCHANGED <<workflows, executions>>

EdgeLoadNodes(c) ==
    /\ Is(c, "create_edge", "start")
    /\ IF {req[c].ask.a, req[c].ask.b} \subseteq OfWorkflow(nodes, req[c].ask.w) /\ req[c].ask.a # req[c].ask.b
       THEN req' = [req EXCEPT ![c].stage = "loaded", ![c].ids = OfWorkflow(nodes, req[c].ask.w)]
       ELSE End(c)
    /\ Quiet /\ UNCHANGED rows

(* Mistake: the candidate edge is left out of the check.                     *)
Candidate_left_out(ask, existing) == existing

(* Every edge counts as a forward edge here, whatever its label.             *)
Candidate(ask, existing) == existing \cup {<<ask.a, ask.b>>}

EdgeLoadEdges(c) ==
    LET ask == req[c].ask
        existing == {<<t[1], t[2]>> : t \in Triples(OfWorkflow(edges, ask.w))}
    IN /\ Is(c, "create_edge", "loaded")
       /\ IF <<ask.a, ask.b>> \notin existing /\ Acyclic(req[c].ids, Candidate(ask, existing))
          THEN Goto(c, "valid") ELSE End(c)
       /\ Quiet /\ UNCHANGED rows

create_edge(c) ==
    LET ask == req[c].ask
    IN /\ Is(c, "create_edge", "valid")
       /\ edges' = IF {ask.a, ask.b} \subseteq DOMAIN nodes /\ ask.w \in workflows
                   THEN Insert(edges, [wf |-> ask.w, src |-> ask.a, dst |-> ask.b, label |-> ask.label])
                   ELSE edges
       /\ End(c) /\ Quiet /\ UNCHANGED <<workflows, nodes, executions>>

-----------------------------------------------------------------------------
(* Runs.                                                                     *)

Run(w, parent, how) == [wf |-> w, parent |-> parent, how |-> how, status |-> "PENDING"]

RunLoadNodes(c) ==
    /\ Is(c, "create_execution", "start")
    /\ req' = [req EXCEPT ![c].stage = "loaded", ![c].ids = OfWorkflow(nodes, req[c].ask.w)]
    /\ Quiet /\ UNCHANGED rows

RunLoadEdges(c) ==
    /\ Is(c, "create_execution", "loaded")
    /\ IF validate_graph_with_loops(req[c].ids, Triples(OfWorkflow(edges, req[c].ask.w)))
       THEN Goto(c, "valid") ELSE End(c)
    /\ Quiet /\ UNCHANGED rows

create_execution(c) ==
    /\ Is(c, "create_execution", "valid")
    /\ executions' = IF req[c].ask.w \in workflows
                     THEN Insert(executions, Run(req[c].ask.w, None, "manual")) ELSE executions
    /\ End(c) /\ Quiet /\ UNCHANGED <<workflows, nodes, edges>>

(* ExecutionHistoryService.replay(): the workflow still exists.              *)
ReplayCheck(c) ==
    /\ Is(c, "replay", "start")
    /\ IF req[c].source.wf \in workflows THEN Goto(c, "create") ELSE End(c)
    /\ Quiet /\ UNCHANGED rows

Resumable(source) == source.status \in {"FAILED", "CANCELLED"}

(* resume_failed(): the source ended badly; its node rows are read.          *)
ResumeCheck(c) ==
    /\ Is(c, "resume_failed", "start")
    /\ IF Resumable(req[c].source) THEN Goto(c, "create") ELSE End(c)
    /\ Quiet /\ UNCHANGED rows

CreateChild(c) ==
    LET w == req[c].source.wf
        child == Run(w, req[c].ask.a, req[c].ask.op)
    IN /\ Is(c, "replay", "create") \/ Is(c, "resume_failed", "create")
       /\ executions' = IF w \in workflows /\ req[c].ask.a \in DOMAIN executions
                        THEN Insert(executions, child) ELSE executions
       /\ End(c) /\ Quiet /\ UNCHANGED <<workflows, nodes, edges>>

(* The engine ends a run.                                                    *)
Finish(e) ==
    /\ executions[e].status = "PENDING"
    /\ \E status \in {"COMPLETED", "FAILED"} : executions' = [executions EXCEPT ![e].status = status]
    /\ Quiet /\ UNCHANGED <<workflows, nodes, edges, req>>

-----------------------------------------------------------------------------
(* search(): one page of the history, newest first, and then the count.      *)

Newer(e) == Cardinality({f \in DOMAIN executions : f > e})
Page(skip) == {e \in DOMAIN executions : Newer(e) \in skip..(skip + PageSize - 1)}

SearchRows(c) ==
    /\ Is(c, "search", "start")
    /\ req' = [req EXCEPT ![c].stage = "count", ![c].seen = @ \cup Page(req[c].skip),
                          ![c].made = Cardinality(Page(req[c].skip))]
    /\ Quiet /\ UNCHANGED rows

HasMore(c) == req[c].skip + req[c].made < Cardinality(DOMAIN executions)

(* A client that follows has_more asks for the next page.                    *)
SearchCount(c) ==
    /\ Is(c, "search", "count")
    /\ req' = IF HasMore(c) THEN [req EXCEPT ![c].stage = "start", ![c].skip = @ + PageSize]
              ELSE [req EXCEPT ![c].stage = "seen"]
    /\ Quiet /\ UNCHANGED rows

SearchEnds(c) == Is(c, "search", "seen") /\ End(c) /\ Quiet /\ UNCHANGED rows

-----------------------------------------------------------------------------
Step(c) ==
    \/ create_workflow(c) \/ delete_workflow(c)
    \/ PutDeleteEdges(c) \/ PutDeleteNodes(c) \/ PutNode(c) \/ PutEdge(c) \/ PutLost(c)
    \/ create_node(c) \/ Find(c) \/ delete_by_node(c) \/ delete_node(c) \/ delete_edge(c)
    \/ EdgeLoadNodes(c) \/ EdgeLoadEdges(c) \/ create_edge(c)
    \/ RunLoadNodes(c) \/ RunLoadEdges(c) \/ create_execution(c)
    \/ ReplayCheck(c) \/ ResumeCheck(c) \/ CreateChild(c)
    \/ SearchRows(c) \/ SearchCount(c) \/ SearchEnds(c)

(* Two workflows: one with two nodes and an edge, which failed once, and one *)
(* with a node.                                                              *)
Init ==
    /\ workflows = {1, 2}
    /\ nodes = [i \in 1..3 |-> [wf |-> IF i = 3 THEN 2 ELSE 1]]
    /\ edges = [i \in {1} |-> [wf |-> 1, src |-> 1, dst |-> 2, label |-> "ok"]]
    /\ executions = [i \in {1} |-> [Run(1, None, "manual") EXCEPT !.status = "FAILED"]]
    /\ req = [c \in Clients |-> Idle]
    /\ answered = 0 /\ overlapped = FALSE /\ unchecked = FALSE /\ removed = 0

Next ==
    \/ \E c \in Clients : Step(c) \/ \E ask \in Asks : Begin(c, ask)
    \/ \E e \in DOMAIN executions : Finish(e)

Spec == Init /\ [][Next]_vars

-----------------------------------------------------------------------------
(* Every row has the columns of its table, and a foreign key is the id of a  *)
(* row that is still there: what is deleted takes what refers to it along,   *)
(* whatever other requests are about to insert.                              *)
TypeOK ==
    /\ \A i \in DOMAIN nodes : nodes[i].wf \in workflows
    /\ \A i \in DOMAIN edges :
          edges[i].wf \in workflows /\ {edges[i].src, edges[i].dst} \subseteq DOMAIN nodes
    /\ \A i \in DOMAIN executions :
          executions[i].wf \in workflows /\ executions[i].parent \in DOMAIN executions \cup {None}

(* Requests that write one after the other, whatever their order, leave in   *)
(* every workflow a graph its next run accepts: the edges join nodes of the  *)
(* workflow and close no unlabelled circle.  (With requests that overlap     *)
(* this fails: each checks against what the other is about to change.  So it *)
(* does after a graph whose nodes have no ids: see CirclesRejected.)         *)
QuietEditsSound ==
    ~overlapped /\ ~unchecked => \A w \in workflows :
        LET ids == OfWorkflow(nodes, w)
            triples == Triples(OfWorkflow(edges, w))
        IN ids # {} => validate_graph_with_loops(ids, triples)

(* replace_graph(): "Unlabelled cycles are still rejected exactly as before" *)
(* - whoever sends them, and also when no node of the payload has an id.     *)
CirclesRejected ==
    ~overlapped => \A w \in workflows :
        Acyclic(OfWorkflow(nodes, w), Forward(Triples(OfWorkflow(edges, w))))

(* Under the same condition a replayed or resumed run descends from an older *)
(* run of the same workflow, a resumed one from a run that ended badly.      *)
QuietLineage ==
    ~overlapped => \A e \in DOMAIN executions :
        LET parent == executions[e].parent
        IN parent # None =>
              /\ parent < e /\ executions[parent].wf = executions[e].wf
              /\ executions[e].how = "resume_failed" =>
                    executions[parent].status \in {"FAILED", "CANCELLED"}

(* A client that pages through the history while runs are added, but none    *)
(* removed, sees every run there was when it started.                        *)
BrowseSeesAll ==
    \A c \in Clients :
        Is(c, "search", "seen") /\ req[c].removed = removed => req[c].before \subseteq req[c].seen

-----------------------------------------------------------------------------
(* The inductive invariant that the properties above rest on.                *)

Table(table, Row) ==
    IsFiniteSet(DOMAIN table) /\ DOMAIN table \subseteq Nat /\ table \in [DOMAIN table -> Row]

NodeRow == [wf : Nat]
EdgeRow == [wf : Nat, src : Nat, dst : Nat, label : {"ok"} \cup STRING]
RunRow == [wf : Nat, parent : Nat \cup {None}, how : {"manual", "replay", "resume_failed"},
           status : {"PENDING", "COMPLETED", "FAILED"}]

Stages == {"start", "delete_edges", "delete_nodes", "create_nodes", "create_edges", "find", "unlink",
           "loaded", "valid", "create", "count", "seen"}

Asked == [stage : Stages, ask : Asks, ids : SUBSET Nat, map : Seq(Nat), made : Nat,
          last : Nat \cup {None}, source : RunRow \cup {None}, skip : Nat,
          seen : SUBSET Nat, before : SUBSET Nat, removed : Nat]

RowsTyped ==
    /\ workflows \subseteq Nat /\ IsFiniteSet(workflows)
    /\ Table(nodes, NodeRow) /\ Table(edges, EdgeRow) /\ Table(executions, RunRow)

RequestsTyped ==
    /\ removed \in Nat /\ overlapped \in BOOLEAN /\ unchecked \in BOOLEAN
    /\ req \in [Clients -> {Idle} \cup Asked]
    /\ \A c \in Clients : req[c] # Idle =>
          /\ req[c].removed <= removed
          /\ req[c].stage = "find" => req[c].ask.op \in {"delete_node", "delete_edge"}

(* Of the clients whose requests write at most one is under way.             *)
Writing(c) == req[c] # Idle /\ Writes(req[c].ask)
OneWriter == ~overlapped => \A c, d \in Clients : Writing(c) /\ Writing(d) => c = d

(* What the checks of a new edge found still holds when it is inserted.      *)
EdgeChecked(c) ==
    req[c] # Idle /\ req[c].ask.op = "create_edge" /\ req[c].stage \in {"loaded", "valid"}
        /\ ~overlapped =>
        LET ask == req[c].ask
            own == OfWorkflow(edges, ask.w)
        IN /\ req[c].ids = OfWorkflow(nodes, ask.w)
           /\ {ask.a, ask.b} \subseteq req[c].ids /\ ask.a # ask.b
           /\ req[c].stage = "valid" =>
                 Acyclic(req[c].ids, {<<edges[e].src, edges[e].dst>> : e \in own} \cup {<<ask.a, ask.b>>})

(* A replaced graph has so far the nodes and edges that were inserted: the   *)
(* images, under the map of ids, of those of the payload.                    *)
Image(c, k) ==
    LET edge == req[c].ask.graph.edges[k]
    IN [wf |-> req[c].ask.w, label |-> edge[3],
        src |-> Mapped(req[c].ask.graph, req[c].map, edge[1]),
        dst |-> Mapped(req[c].ask.graph, req[c].map, edge[2])]

PutAccepted(c) ==
    req[c] # Idle /\ req[c].ask.op = "put" =>
        LET graph == req[c].ask.graph
        IN /\ graph.nodes # <<>> /\ graph.ids => IsInjective(graph.nodes)
           /\ graph.nodes # <<>> /\ ~unchecked => Sound(graph)
           /\ req[c].made <= Len(graph.edges)
           /\ req[c].stage \in {"delete_edges", "delete_nodes", "create_nodes"} => req[c].made = 0
           /\ req[c].stage \in {"delete_edges", "delete_nodes"} => req[c].map = <<>>

PutKept(c) ==
    req[c] # Idle /\ req[c].ask.op = "put" /\ ~overlapped =>
        LET graph == req[c].ask.graph
        IN /\ req[c].stage # "delete_edges" =>
                 \A e \in OfWorkflow(edges, req[c].ask.w) : \E k \in 1..req[c].made : edges[e] = Image(c, k)
           /\ req[c].stage \in {"create_nodes", "create_edges"} =>
                 /\ OfWorkflow(nodes, req[c].ask.w) = ToSet(req[c].map)
                 /\ IsInjective(req[c].map) /\ Len(req[c].map) <= Len(graph.nodes)
           /\ req[c].stage = "create_edges" => Len(req[c].map) = Len(graph.nodes)

(* The run that is repeated is still there and ended as it had.              *)
ParentKept(c) ==
    req[c] # Idle /\ req[c].ask.op \in {"replay", "resume_failed"} =>
        /\ req[c].source \in RunRow
        /\ req[c].stage = "create" /\ req[c].ask.op = "resume_failed" => Resumable(req[c].source)
        /\ ~overlapped =>
              /\ req[c].ask.a \in DOMAIN executions
              /\ executions[req[c].ask.a].wf = req[c].source.wf
              /\ Resumable(req[c].source) => executions[req[c].ask.a].status = req[c].source.status

(* A client that pages has seen all runs newer than where it is.             *)
Pages(c) ==
    req[c] # Idle /\ req[c].ask.op = "search" /\ req[c].removed = removed =>
        /\ req[c].before \subseteq DOMAIN executions
        /\ req[c].stage = "start" =>
              \A e \in req[c].before : Newer(e) < req[c].skip => e \in req[c].seen
        /\ req[c].stage = "count" =>
              /\ req[c].made <= PageSize
              /\ \A e \in req[c].before : Newer(e) < req[c].skip + PageSize => e \in req[c].seen
        /\ req[c].stage = "seen" => req[c].before \subseteq req[c].seen

Inside ==
    ~overlapped /\ ~unchecked => \A e \in DOMAIN edges :
        /\ edges[e].src # edges[e].dst
        /\ nodes[edges[e].src].wf = edges[e].wf /\ nodes[edges[e].dst].wf = edges[e].wf

NoCircle ==
    ~overlapped /\ ~unchecked => \A w \in workflows :
        Acyclic(OfWorkflow(nodes, w), Forward(Triples(OfWorkflow(edges, w))))

RowsInv == RowsTyped /\ TypeOK /\ Inside /\ NoCircle /\ QuietLineage

Promised(c) == EdgeChecked(c) /\ PutAccepted(c) /\ PutKept(c) /\ ParentKept(c) /\ Pages(c)

LibraryInv == RowsInv /\ RequestsTyped /\ OneWriter /\ \A c \in Clients : Promised(c)

=============================================================================
