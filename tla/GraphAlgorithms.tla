-------------------------- MODULE GraphAlgorithms --------------------------
(***************************************************************************)
(* The algorithms of services/workflow/graph.py, step by step, on one graph: *)
(* the depth-first search for cycles, the orders by indegree, and the walks  *)
(* that bound the body of a loop.  Their results are compared with what the  *)
(* words mean.                                                               *)
(***************************************************************************)
EXTENDS Integers, Sequences, FiniteSets, SequencesExt, FiniteSetsExt

CONSTANTS Ids, EdgeLists, None

GraphAssumption == Ids \subseteq Nat /\ None \notin Ids

VARIABLES
    edges,          \* the edges, a sequence of pairs
    algorithm,      \* the function that runs, "done" at its end
    result,         \* the function that ran
    colour, stack, path, cycles,    \* find_cycles()
    indegree, queue, order,         \* topological_order(), execution_layers()
    ends, seen                      \* loop_body(): entry and exit; nodes met

search == <<colour, stack, path, cycles>>
sorting == <<indegree, queue, order>>
walking == <<ends, seen>>
vars == <<edges, algorithm, result, colour, stack, path, cycles, indegree, queue, order, ends, seen>>

Ascending(S) == SetToSortSeq(S, <)
Children(n) == LET mine == SelectSeq(edges, LAMBDA e : e[1] = n) IN [i \in DOMAIN mine |-> mine[i][2]]
Edge(m, n) == <<m, n>> \in ToSet(edges)

(* build_adjacency().                                                        *)
Dependencies(n) == {m \in Ids : Edge(m, n)}
Dependents(n) == {m \in Ids : Edge(n, m)}

Finish == algorithm' = "done" /\ result' = algorithm /\ UNCHANGED edges
Continue == UNCHANGED <<edges, algorithm, result>>

-----------------------------------------------------------------------------
(* find_cycles(): an iterative depth-first search with three colours.        *)

White == {n \in Ids : colour[n] = "white"}

FindRoot ==
    /\ algorithm = "find_cycles" /\ stack = <<>>
    /\ IF White = {} THEN Finish /\ UNCHANGED search
       ELSE LET root == Min(White)
            IN /\ colour' = [colour EXCEPT ![root] = "grey"]
               /\ stack' = <<<<root, 1>>>> /\ path' = <<root>>
               /\ Continue /\ UNCHANGED cycles
    /\ UNCHANGED <<sorting, walking>>

(* _canonical_cycle(): the rotation that starts at the least node.           *)
_canonical_cycle(cycle) ==
    LET i == CHOOSE k \in DOMAIN cycle : \A j \in DOMAIN cycle : cycle[k] <= cycle[j]
    IN SubSeq(cycle, i, Len(cycle)) \o SubSeq(cycle, 1, i - 1)

(* Mistake: the cycle is taken to be the whole path.                         *)
CycleFrom_root(child) == path

CycleFrom(child) == SubSeq(path, CHOOSE k \in DOMAIN path : path[k] = child, Len(path))

(* Mistake: the index of the node on top of the stack does not move.         *)
Advanced_stuck == stack

Advanced == [stack EXCEPT ![Len(stack)][2] = @ + 1]

Visit ==
    LET top == Last(stack)
        child == Children(top[1])[top[2]]
    IN /\ algorithm = "find_cycles" /\ stack # <<>> /\ top[2] <= Len(Children(top[1]))
       /\ IF child \in ToSet(path)
          THEN /\ cycles' = cycles \cup {_canonical_cycle(CycleFrom(child))}
               /\ stack' = Advanced /\ UNCHANGED <<colour, path>>
          ELSE IF colour[child] = "white"
          THEN /\ colour' = [colour EXCEPT ![child] = "grey"]
               /\ path' = Append(path, child) /\ stack' = Append(Advanced, <<child, 1>>)
               /\ UNCHANGED cycles
          ELSE stack' = Advanced /\ UNCHANGED <<colour, path, cycles>>
       /\ Continue /\ UNCHANGED <<sorting, walking>>

Backtrack ==
    LET top == Last(stack)
    IN /\ algorithm = "find_cycles" /\ stack # <<>> /\ top[2] > Len(Children(top[1]))
       /\ colour' = [colour EXCEPT ![top[1]] = "black"]
       /\ stack' = Front(stack) /\ path' = Front(path)
       /\ Continue /\ UNCHANGED <<cycles, sorting, walking>>

-----------------------------------------------------------------------------
(* topological_order(): one node of the queue; execution_layers(): a layer.  *)

Freed(degrees) == {n \in Ids : degrees[n] = 0 /\ indegree[n] > 0}

Lowered(ns) == [n \in Ids |-> indegree[n] - Cardinality(Dependencies(n) \cap ns)]

topological_order ==
    /\ algorithm = "topological_order"
    /\ IF queue = <<>> THEN Finish /\ UNCHANGED sorting
       ELSE /\ indegree' = Lowered({Head(queue)})
            /\ order' = Append(order, Head(queue))
            /\ queue' = Tail(queue) \o Ascending(Freed(indegree'))
            /\ Continue
    /\ UNCHANGED <<search, walking>>

execution_layers ==
    /\ algorithm = "execution_layers"
    /\ IF queue = <<>> THEN Finish /\ UNCHANGED sorting
       ELSE /\ indegree' = Lowered(ToSet(queue))
            /\ order' = Append(order, queue)
            /\ queue' = Ascending(Freed(indegree'))
            /\ Continue
    /\ UNCHANGED <<search, walking>>

-----------------------------------------------------------------------------
(* loop_body(): forward from the entry, then backward from the exit.         *)

(* descendants(): breadth first; the start itself is not one.                *)
descendants ==
    /\ algorithm = "descendants"
    /\ IF queue = <<>>
       THEN /\ algorithm' = "loop_body" /\ queue' = <<ends[2]>>
            /\ seen' = [seen EXCEPT !.forward = @ \cup {ends[1]}]
       ELSE LET n == Head(queue)
                old == n \in seen.forward \/ n = ends[1]
            IN /\ queue' = Tail(queue) \o IF old THEN <<>> ELSE Children(n)
               /\ seen' = [seen EXCEPT !.forward = IF old THEN @ ELSE @ \cup {n}]
               /\ UNCHANGED algorithm
    /\ UNCHANGED <<edges, result, search, indegree, order, ends>>

Backward ==
    LET n == Head(queue)
        old == n \in seen.backward
    IN /\ algorithm = "loop_body" /\ queue # <<>>
       /\ queue' = Tail(queue) \o IF old THEN <<>> ELSE Ascending(Dependencies(n))
       /\ seen' = [seen EXCEPT !.backward = @ \cup {n}]
       /\ UNCHANGED <<edges, algorithm, result, search, indegree, order, ends>>

Body == (seen.forward \cap seen.backward) \cup ToSet(ends)

loop_body ==
    /\ algorithm = "loop_body" /\ queue = <<>>
    /\ order' = Ascending(Body)
    /\ Finish /\ UNCHANGED <<search, indegree, queue, walking>>

-----------------------------------------------------------------------------
Init ==
    /\ edges \in EdgeLists
    /\ algorithm \in {"find_cycles", "topological_order", "execution_layers", "descendants"}
    /\ result = None
    /\ colour = [n \in Ids |-> "white"] /\ stack = <<>> /\ path = <<>> /\ cycles = {}
    /\ indegree = [n \in Ids |-> Cardinality(Dependencies(n))] /\ order = <<>>
    /\ ends \in IF algorithm = "descendants" THEN Ids \X {Max(Ids)} ELSE {<<Min(Ids), Max(Ids)>>}
    /\ queue = IF algorithm = "descendants" THEN Children(ends[1])
               ELSE Ascending({n \in Ids : Dependencies(n) = {}})
    /\ seen = [forward |-> {}, backward |-> {}]

Next ==
    \/ FindRoot \/ Visit \/ Backtrack
    \/ topological_order \/ execution_layers
    \/ descendants \/ Backward \/ loop_body

(* Each function runs to its end without a wait.                             *)
Spec == Init /\ [][Next]_vars /\ WF_vars(Next)

-----------------------------------------------------------------------------
(* A graph is cyclic when some nodes have a successor among themselves.      *)
Cyclic == \E circle \in (SUBSET Ids) \ {{}} : \A m \in circle : \E n \in circle : Edge(m, n)

Reaches(m, n) ==
    \A S \in SUBSET Ids : (m \in S /\ \A a \in S : Dependents(a) \subseteq S) => n \in S

(* The path of the search is its stack, and grey is what is on it.           *)
TypeOK ==
    /\ path = [i \in DOMAIN stack |-> stack[i][1]]
    /\ ToSet(path) = {n \in Ids : colour[n] = "grey"}
    /\ indegree \in [Ids -> Int]

(* find_cycles() names a cycle exactly when there is one, and each it names  *)
(* leads along edges back to where it starts, through a node at most once.   *)
CyclesFound ==
    /\ result = "find_cycles" => (cycles # {}) = Cyclic
    /\ \A cycle \in cycles :
          /\ IsInjective(cycle)
          /\ \A i \in DOMAIN cycle : Edge(cycle[i], cycle[(i % Len(cycle)) + 1])

(* topological_order() puts every node after what it depends on, and leaves  *)
(* a node out (it raises) exactly when the graph is cyclic.                  *)
OrderSound ==
    result = "topological_order" =>
        /\ IsInjective(order) /\ (ToSet(order) # Ids) = Cyclic
        /\ \A i, j \in DOMAIN order : Edge(order[i], order[j]) => i < j

(* execution_layers() puts a node into the layer right after the last of its *)
(* dependencies: no layer waits for a node of its own, none comes too late.  *)
LayersAreDepths ==
    result = "execution_layers" =>
        \A k \in DOMAIN order : \A i \in DOMAIN order[k] :
            LET n == order[k][i]
                earlier == UNION {ToSet(order[j]) : j \in 1..(k - 1)}
            IN /\ n \notin earlier /\ Dependencies(n) \subseteq earlier
               /\ k > 1 => Dependencies(n) \cap ToSet(order[k - 1]) # {}

(* loop_body() is what lies between the entry and the exit of a loop, with   *)
(* both, whatever else hangs on its nodes.                                   *)
BodyIsBetween ==
    result = "loop_body" =>
        ToSet(order) = ToSet(ends) \cup {n \in Ids : Reaches(ends[1], n) /\ Reaches(n, ends[2])}

=============================================================================
